---- MODULE Spec2Model ----
(***************************************************************************)
(* The duplicate-slot broadcast run of core/src/broadcast_stage/            *)
(* broadcast_duplicates_run.rs as a state machine: one producer thread      *)
(* (run), the transmitter threads (transmit) and the recorder thread        *)
(* (record), connected by the socket and blockstore channels and sharing    *)
(* the two mutex-guarded signature sets.                                    *)
(***************************************************************************)
EXTENDS Integers, Sequences, FiniteSets, TLC

(* ------------------------------------------------------------------ *)
(* Program constants                                                    *)
(* ------------------------------------------------------------------ *)
MINIMUM_DUPLICATE_SLOT == 20
DUPLICATE_RATE == 10
\* u32::MAX, written as its residue modulo 2^32 (indices are u32, and the
\* integers of TLC are 32-bit signed)
U32_MAX == -1

(* ------------------------------------------------------------------ *)
(* Bounds of the model                                                  *)
(* ------------------------------------------------------------------ *)
\* largest slot a bank handed to run may have
MaxSlot == 21
\* entries in one batch returned by recv_slot_entries
MaxEntries == 2
\* data shreds the shredder cuts one batch of entries into
MaxBatchShreds == 1
\* coding shreds the shredder adds to one batch
MaxCoding == 1
\* caps on next_shred_index and next_code_index within one slot
MaxShredIndex == 3
MaxCodeIndex == 1
\* messages a channel holds
MaxQueue == 2
\* the configured BroadcastDuplicatesConfig::stake_partition
StakePartition == 3
\* SpecPartition: the largest stake of one identity, the largest threshold
MaxStake == 2
MaxLimit == 4

None == "None"
NoAddr == "NoAddr"

(* ------------------------------------------------------------------ *)
(* The cluster: identities, their byte order, TVU addresses             *)
(* ------------------------------------------------------------------ *)
SelfPubkey == "self"
Nodes == {"n1", "n2", "n3"}
\* Pubkey's Ord is the order of its bytes; KeyOrder lists the identities in it
KeyOrder == <<"n1", "self", "n2", "n3">>
Rank(p) == CHOOSE i \in 1..Len(KeyOrder) : KeyOrder[i] = p
\* contact_info.tvu of each peer
TvuOf == ("n1" :> "tvu1") @@ ("n2" :> "tvu2") @@ ("n3" :> "tvu3")
Addrs == {TvuOf[n] : n \in Nodes}
\* the stake table of the slot's leader-schedule epoch used by Spec
MainStakes == [n \in Nodes \cup {SelfPubkey} |->
                 IF n = "n1" THEN 1 ELSE IF n = "n2" THEN 2 ELSE 4]
\* what cluster_info.all_peers() may hold when a transmit call reads it
GossipViews == {Nodes, Nodes \ {"n1"}}

Transmitters == {"t1", "t2"}
Hashes == {"h1"}
Blockhashes == {"b1"}

(* ------------------------------------------------------------------ *)
(* Entries and shreds                                                   *)
(* ------------------------------------------------------------------ *)
\* an Entry: its hash, and the recent blockhash of its first transaction
\* (None for a tick, which has no transactions)
EntrySet == [hash : Hashes, tx : Blockhashes \cup {None}]
is_tick(e) == e.tx = None

RECURSIVE SeqsUpTo(_, _)
SeqsUpTo(S, n) ==
    IF n = 0 THEN {<<>>}
    ELSE LET shorter == SeqsUpTo(S, n - 1)
         IN shorter \cup {Append(s, x) : s \in {q \in shorter : Len(q) = n - 1}, x \in S}

\* Signature of the signed message: shreds with different signed bytes have
\* different signatures
Sign(slot, index, last, data) == <<slot, index, last, data>>

NewShred(slot, index, last, data) ==
    [slot |-> slot, index |-> index, last_in_slot |-> last, data |-> data,
     signature |-> Sign(slot, index, last, data)]

\* Shredder::entries_to_shreds, data shreds: n shreds of consecutive indices
\* from next_shred_index, the last one flagged when is_last_in_slot
EntriesToShreds(slot, data, n, is_last_in_slot, next_shred_index) ==
    [i \in 1..n |->
        NewShred(slot, next_shred_index + i - 1, (i = n) /\ is_last_in_slot, data)]

Signatures(shreds) == {shreds[i].signature : i \in 1..Len(shreds)}

\* Shred::verify: the signature is that of the key over the signed message;
\* the shreds of run are signed with this node's keypair
verify(shred, pubkey) ==
    /\ pubkey = SelfPubkey
    /\ shred.signature = Sign(shred.slot, shred.index, shred.last_in_slot, shred.data)

(* ------------------------------------------------------------------ *)
(* State                                                                *)
(* ------------------------------------------------------------------ *)
VARIABLES
    \* BroadcastDuplicatesRun, the producer's fields
    current_slot, next_shred_index, next_code_index, recent_blockhash,
    prev_entry_hash, num_slots_broadcasted,
    \* the shared tracking sets and who holds their mutexes
    original_last_data_shreds, partition_last_data_shreds, orig_lock, part_lock,
    \* config.stake_partition and root_bank.epoch_staked_nodes(epoch)
    stake_partition, epoch_staked_nodes,
    \* the channels: socket_sender -> transmit, blockstore_sender -> record
    socket_chan, blockstore_chan,
    \* run: where the producer is, and its locals
    run_pc, run_local,
    \* the bank: whether the current slot has reached its max tick height
    bank_done,
    \* transmit: each transmitter's position and locals
    tx,
    \* what insert_shreds has stored, what batch_send has sent
    blockstore, delivered,
    \* every signature run has put into either tracking set
    inserted_original, inserted_partition,
    \* how often each signature was found in a tracking set by transmit
    removals,
    \* the partition last computed by ComputePartition (SpecPartition only)
    partition_out,
    \* the batches run has sent on the socket channel, in order, for the slots
    \* that can be duplicated
    socket_log,
    \* ledger/src/shred.rs: the packet and the shreds a function is applied to,
    \* the ShredFetchStats counters, what the function returned, and the
    \* other arguments of a call
    packet, stats, shred_self, shred_other, result, args

producer_vars == <<current_slot, next_shred_index, next_code_index, recent_blockhash,
                   prev_entry_hash, num_slots_broadcasted>>
set_vars == <<original_last_data_shreds, partition_last_data_shreds>>
lock_vars == <<orig_lock, part_lock>>
config_vars == <<stake_partition, epoch_staked_nodes>>
hist_vars == <<inserted_original, inserted_partition>>

codec_vars == <<packet, stats, shred_self, shred_other, result, args>>
pipeline_vars == <<current_slot, next_shred_index, next_code_index, recent_blockhash,
                   prev_entry_hash, num_slots_broadcasted,
                   original_last_data_shreds, partition_last_data_shreds, orig_lock,
                   part_lock, stake_partition, epoch_staked_nodes, socket_chan,
                   blockstore_chan, run_pc, run_local, bank_done, tx, blockstore,
                   delivered, inserted_original, inserted_partition, removals,
                   partition_out, socket_log>>

vars == <<current_slot, next_shred_index, next_code_index, recent_blockhash,
          prev_entry_hash, num_slots_broadcasted,
          original_last_data_shreds, partition_last_data_shreds, orig_lock, part_lock,
          stake_partition, epoch_staked_nodes, socket_chan, blockstore_chan,
          run_pc, run_local, bank_done, tx, blockstore, delivered,
          inserted_original, inserted_partition, removals, partition_out,
          socket_log, packet, stats, shred_self, shred_other, result, args>>

\* an Option is a sequence of no or one element
NoLocal == [data_shreds |-> <<>>, last_shreds |-> <<>>, reset |-> <<>>,
            entry_batch_len |-> 0]
IdleTx == [pc |-> "recv", shreds |-> <<>>, i |-> 0, node |-> None, packets |-> {}]

\* BroadcastDuplicatesRun::new
InitRun ==
    /\ next_shred_index = U32_MAX
    /\ next_code_index = 0
    /\ current_slot = 0
    /\ recent_blockhash = None
    /\ prev_entry_hash = None
    /\ num_slots_broadcasted = 0
    /\ original_last_data_shreds = {}
    /\ partition_last_data_shreds = {}

InitPipeline ==
    /\ orig_lock = None
    /\ part_lock = None
    /\ socket_chan = <<>>
    /\ blockstore_chan = <<>>
    /\ run_pc = "recv"
    /\ run_local = NoLocal
    /\ bank_done = FALSE
    /\ tx = [t \in Transmitters |-> IdleTx]
    /\ blockstore = {}
    /\ delivered = {}
    /\ inserted_original = {}
    /\ inserted_partition = {}
    /\ removals = <<>>
    /\ partition_out = <<>>
    /\ socket_log = <<>>

\* no packet is being parsed
InitCodec ==
    /\ args = <<>>
    /\ packet = <<>>
    /\ stats = <<>>
    /\ shred_self = <<>>
    /\ shred_other = <<>>
    /\ result = <<>>

Init ==
    /\ InitRun
    /\ InitPipeline
    /\ InitCodec
    /\ stake_partition = StakePartition
    /\ epoch_staked_nodes = MainStakes


(* ------------------------------------------------------------------ *)
(* transmit: the cluster partition (lines 264-279)                      *)
(* ------------------------------------------------------------------ *)
\* the sort key (stake, pubkey) of sorted_by_key, compared lexicographically
KeyLess(stakes, a, b) ==
    \/ stakes[a] < stakes[b]
    \/ stakes[a] = stakes[b] /\ Rank(a) < Rank(b)

RECURSIVE SortedByKey(_, _)
SortedByKey(stakes, S) ==
    IF S = {} THEN <<>>
    ELSE LET m == CHOOSE x \in S : \A y \in S \ {x} : KeyLess(stakes, x, y)
         IN <<m>> \o SortedByKey(stakes, S \ {m})

\* a take_while that stops one identity early, at the threshold itself
WithinPartitionStrict(cumulative, limit) == cumulative < limit

\* the closure of take_while: adds the stake first, then compares
WithinPartition(cumulative, limit) == cumulative <= limit

RECURSIVE TakeWhileStake(_, _, _, _, _)
TakeWhileStake(stakes, sorted, i, cumilative_stake, limit) ==
    IF i > Len(sorted) THEN {}
    ELSE LET cum == cumilative_stake + stakes[sorted[i]]
         IN IF WithinPartition(cum, limit)
            THEN {sorted[i]} \cup TakeWhileStake(stakes, sorted, i + 1, cum, limit)
            ELSE {}

NotSelf(stakes, self_pubkey) == {p \in DOMAIN stakes : p # self_pubkey}

ClusterPartition(stakes, self_pubkey, limit) ==
    TakeWhileStake(stakes, SortedByKey(stakes, NotSelf(stakes, self_pubkey)), 1, 0, limit)

cluster_partition == ClusterPartition(epoch_staked_nodes, SelfPubkey, stake_partition)

(* ------------------------------------------------------------------ *)
(* run (lines 64-237)                                                   *)
(* ------------------------------------------------------------------ *)
\* the slot of the first bank this node leads: early enough for DUPLICATE_RATE
\* slots to be broadcast before or just after MINIMUM_DUPLICATE_SLOT
FirstSlots == {MINIMUM_DUPLICATE_SLOT - DUPLICATE_RATE + 1,
               MINIMUM_DUPLICATE_SLOT - DUPLICATE_RATE + 2}

\* the slots the next bank can have: the slot not yet complete, or a later one.
\* Slot 0 is the genesis bank, which has no parent and is never broadcast.
BankSlots ==
    (IF current_slot # 0 /\ ~bank_done THEN {current_slot} ELSE {})
    \cup (IF current_slot = 0 THEN FirstSlots
          ELSE {current_slot + 1} \cap (1..MaxSlot))

\* a reset that forgets the coding index
ResetKeepingCodeIndex(f, slot) ==
    IF slot # f.current_slot
    THEN [next_shred_index |-> 0,
          next_code_index |-> f.next_code_index,
          current_slot |-> slot,
          prev_entry_hash |-> None,
          num_slots_broadcasted |-> f.num_slots_broadcasted + 1]
    ELSE f

\* a reset that goes on with the shred index of the slot before
ResetKeepingShredIndex(f, slot) ==
    IF slot # f.current_slot
    THEN [next_shred_index |-> IF f.next_shred_index = U32_MAX THEN 0
                               ELSE f.next_shred_index,
          next_code_index |-> 0,
          current_slot |-> slot,
          prev_entry_hash |-> None,
          num_slots_broadcasted |-> f.num_slots_broadcasted + 1]
    ELSE f

\* lines 77-83
ResetOnNewSlot(f, slot) ==
    IF slot # f.current_slot
    THEN [next_shred_index |-> 0,
          next_code_index |-> 0,
          current_slot |-> slot,
          prev_entry_hash |-> None,
          num_slots_broadcasted |-> f.num_slots_broadcasted + 1]
    ELSE f

\* lines 90-95: the blockhash of the first entry that has transactions
RECURSIVE UpdateRecentBlockhash(_, _, _)
UpdateRecentBlockhash(entries, i, old) ==
    IF i > Len(entries) THEN old
    ELSE IF ~is_tick(entries[i]) THEN entries[i].tx
    ELSE UpdateRecentBlockhash(entries, i + 1, old)

\* the four conditions with the activation slot itself included
ShouldDuplicateFromMinimum(last_tick, slot, broadcasted, blockhash) ==
    /\ last_tick
    /\ slot >= MINIMUM_DUPLICATE_SLOT
    /\ broadcasted % DUPLICATE_RATE = 0
    /\ blockhash # None

\* lines 100-103
ShouldDuplicate(last_tick, slot, broadcasted, blockhash) ==
    /\ last_tick
    /\ slot > MINIMUM_DUPLICATE_SLOT
    /\ broadcasted % DUPLICATE_RATE = 0
    /\ blockhash # None

\* lines 106-112: the hash of the second-to-last entry, else the remembered one
PrevEntryHash(entries, remembered) ==
    IF Len(entries) > 1 THEN entries[Len(entries) - 1].hash ELSE remembered

\* a flag of the ordinary batch that ignores the fork
BulkIsLastOnLastTick(last_tick, forked) == last_tick

\* line 163: the flag of the ordinary batch
BulkIsLast(last_tick, forked) == last_tick /\ ~forked

\* lines 174 and 179: the is_last_in_slot argument of the two terminal calls
OriginalIsLast == TRUE
PartitionIsLast == TRUE

\* an index argument taken after the increment of line 188
PartitionIndexAfterIncrement(next) == next + 1

\* lines 174 and 179: the next_shred_index argument of the two terminal calls
OriginalIndex(next) == next
PartitionIndex(next) == next

\* a return on an empty batch that forgets the recent blockhash
ReturnOnEmptyForgettingBlockhash(f) ==
    /\ next_shred_index' = f.next_shred_index
    /\ next_code_index' = f.next_code_index
    /\ prev_entry_hash' = f.prev_entry_hash
    /\ recent_blockhash' = None
    /\ run_pc' = "recv"
    /\ run_local' = NoLocal

\* lines 85-87: the return on an empty batch, after the reset f
ReturnOnEmpty(f) ==
    /\ next_shred_index' = f.next_shred_index
    /\ next_code_index' = f.next_code_index
    /\ prev_entry_hash' = f.prev_entry_hash
    /\ recent_blockhash' = recent_blockhash
    /\ run_pc' = "recv"
    /\ run_local' = NoLocal

StartRun(slot, entries, last_tick, n, c) ==
    LET f0 == [next_shred_index |-> next_shred_index,
               next_code_index |-> next_code_index,
               current_slot |-> current_slot,
               prev_entry_hash |-> prev_entry_hash,
               num_slots_broadcasted |-> num_slots_broadcasted]
        f == ResetOnNewSlot(f0, slot)
        blockhash == UpdateRecentBlockhash(entries, 1, recent_blockhash)
        prev == PrevEntryHash(entries, f.prev_entry_hash)
        forked == ShouldDuplicate(last_tick, slot, f.num_slots_broadcasted, blockhash)
                  /\ prev # None
        data_shreds == EntriesToShreds(slot, "entries", n,
                                       BulkIsLast(last_tick, forked), f.next_shred_index)
        after_bulk == f.next_shred_index + n
        last_shreds ==
            IF forked
            THEN <<[original |-> EntriesToShreds(slot, "original_last_entry", 1,
                                                 OriginalIsLast,
                                                 OriginalIndex(after_bulk)),
                    partition |-> EntriesToShreds(slot, "duplicate_extra_last_entries", 1,
                                                  PartitionIsLast,
                                                  PartitionIndex(after_bulk))]>>
            ELSE <<>>
    IN /\ current_slot' = f.current_slot
       /\ num_slots_broadcasted' = f.num_slots_broadcasted
       /\ IF entries = <<>>
          THEN ReturnOnEmpty(f)
          ELSE /\ f.next_shred_index + n < MaxShredIndex
               /\ f.next_code_index + c <= MaxCodeIndex
               /\ next_shred_index' = IF forked THEN after_bulk + 1 ELSE after_bulk
               /\ next_code_index' = IF c > 0 THEN f.next_code_index + c
                                     ELSE f.next_code_index
               /\ prev_entry_hash' = entries[Len(entries)].hash
               /\ recent_blockhash' = blockhash
               /\ run_pc' = "send_bulk_rec"
               /\ run_local' = [data_shreds |-> data_shreds,
                                last_shreds |-> last_shreds,
                                reset |-> IF slot # current_slot
                                          THEN <<[next_shred_index |-> f.next_shred_index,
                                                  next_code_index |-> f.next_code_index,
                                                  prev_entry_hash |-> f.prev_entry_hash]>>
                                          ELSE <<>>,
                                entry_batch_len |-> Len(entries)]
       /\ bank_done' = last_tick

\* The entry source of run is the banking stage, which hands over the next
\* entries a tick apart. The schedules explored are those in which the batches
\* of one call of run, in flight together in the two channels and with both
\* transmitters and the recorder, are transmitted and recorded before the
\* next entries arrive.
Drained ==
    /\ socket_chan = <<>>
    /\ blockstore_chan = <<>>
    /\ \A t \in Transmitters : tx[t].pc = "recv"

\* recv_slot_entries, then lines 74-190
RunRecv ==
    /\ run_pc = "recv"
    /\ Drained
    /\ \E slot \in BankSlots, entries \in SeqsUpTo(EntrySet, MaxEntries),
          last_tick \in BOOLEAN, n \in 1..MaxBatchShreds, c \in 0..MaxCoding :
          /\ last_tick => entries # <<>> /\ is_tick(entries[Len(entries)])
          /\ StartRun(slot, entries, last_tick, n, c)
    /\ UNCHANGED <<codec_vars, set_vars, lock_vars, config_vars, socket_chan, blockstore_chan, tx,
                   blockstore, delivered, hist_vars, removals, partition_out, socket_log>>

\* the history of the socket channel is kept for the slots that can be duplicated
Logged(log, shreds) ==
    IF shreds[1].slot > MINIMUM_DUPLICATE_SLOT THEN Append(log, shreds) ELSE log

\* a producer that sends the bulk batch to the transmitters only
RunSkipBulkRecorder ==
    /\ run_pc = "send_bulk_rec"
    /\ run_pc' = "send_bulk_sock"
    /\ UNCHANGED <<codec_vars, producer_vars, set_vars, lock_vars, config_vars, socket_chan,
                   blockstore_chan, run_local, bank_done, tx, blockstore, delivered,
                   hist_vars, removals, partition_out, socket_log>>

\* line 193
RunSendBulkRecorder ==
    /\ run_pc = "send_bulk_rec"
    /\ Len(blockstore_chan) < MaxQueue
    /\ blockstore_chan' = Append(blockstore_chan, run_local.data_shreds)
    /\ run_pc' = "send_bulk_sock"
    /\ UNCHANGED <<codec_vars, producer_vars, set_vars, lock_vars, config_vars, socket_chan, run_local,
                   bank_done, tx, blockstore, delivered, hist_vars, removals, partition_out, socket_log>>

\* line 202, and the end of run when the slot is not forked
RunSendBulkSocket ==
    /\ run_pc = "send_bulk_sock"
    /\ Len(socket_chan) < MaxQueue
    /\ socket_chan' = Append(socket_chan, run_local.data_shreds)
    /\ socket_log' = Logged(socket_log, run_local.data_shreds)
    /\ IF run_local.last_shreds = <<>>
       THEN run_pc' = "recv" /\ run_local' = NoLocal
       ELSE run_pc' = "lock_orig" /\ run_local' = run_local
    /\ UNCHANGED <<codec_vars, producer_vars, set_vars, lock_vars, config_vars, blockstore_chan,
                   bank_done, tx, blockstore, delivered, hist_vars, removals, partition_out>>

\* line 207: original_last_data_shreds.lock()
RunLockOriginal ==
    /\ run_pc = "lock_orig"
    /\ orig_lock = None
    /\ orig_lock' = "run"
    /\ run_pc' = "extend_orig"
    /\ UNCHANGED <<codec_vars, producer_vars, set_vars, part_lock, config_vars, socket_chan,
                   blockstore_chan, run_local, bank_done, tx, blockstore, delivered,
                   hist_vars, removals, partition_out, socket_log>>

\* lines 207-212: extend, then the guard is dropped
RunExtendOriginal ==
    /\ run_pc = "extend_orig"
    /\ original_last_data_shreds' =
           original_last_data_shreds \cup Signatures(run_local.last_shreds[1].original)
    /\ inserted_original' = inserted_original \cup Signatures(run_local.last_shreds[1].original)
    /\ orig_lock' = None
    /\ run_pc' = "lock_part"
    /\ UNCHANGED <<codec_vars, producer_vars, partition_last_data_shreds, part_lock, config_vars,
                   socket_chan, blockstore_chan, run_local, bank_done, tx, blockstore,
                   delivered, inserted_partition, removals, partition_out, socket_log>>

\* line 213: partition_last_data_shreds.lock()
RunLockPartition ==
    /\ run_pc = "lock_part"
    /\ part_lock = None
    /\ part_lock' = "run"
    /\ run_pc' = "extend_part"
    /\ UNCHANGED <<codec_vars, producer_vars, set_vars, orig_lock, config_vars, socket_chan,
                   blockstore_chan, run_local, bank_done, tx, blockstore, delivered,
                   hist_vars, removals, partition_out, socket_log>>

\* a producer that releases the mutex without recording the signatures
RunSkipExtendPartition ==
    /\ run_pc = "extend_part"
    /\ part_lock' = None
    /\ run_pc' = "send_orig_rec"
    /\ UNCHANGED <<codec_vars, producer_vars, set_vars, orig_lock, config_vars,
                   socket_chan, blockstore_chan, run_local, bank_done, tx, blockstore,
                   delivered, hist_vars, removals, partition_out, socket_log>>

\* lines 213-219
RunExtendPartition ==
    /\ run_pc = "extend_part"
    /\ partition_last_data_shreds' =
           partition_last_data_shreds \cup Signatures(run_local.last_shreds[1].partition)
    /\ inserted_partition' = inserted_partition \cup Signatures(run_local.last_shreds[1].partition)
    /\ part_lock' = None
    /\ run_pc' = "send_orig_rec"
    /\ UNCHANGED <<codec_vars, producer_vars, original_last_data_shreds, orig_lock, config_vars,
                   socket_chan, blockstore_chan, run_local, bank_done, tx, blockstore,
                   delivered, inserted_original, removals, partition_out, socket_log>>

\* a producer that stores only the bulk batch
RunSkipOriginalRecorder ==
    /\ run_pc = "send_orig_rec"
    /\ run_pc' = "send_orig_sock"
    /\ UNCHANGED <<codec_vars, producer_vars, set_vars, lock_vars, config_vars, socket_chan,
                   blockstore_chan, run_local, bank_done, tx, blockstore, delivered,
                   hist_vars, removals, partition_out, socket_log>>

\* line 224
RunSendOriginalRecorder ==
    /\ run_pc = "send_orig_rec"
    /\ Len(blockstore_chan) < MaxQueue
    /\ blockstore_chan' = Append(blockstore_chan, run_local.last_shreds[1].original)
    /\ run_pc' = "send_orig_sock"
    /\ UNCHANGED <<codec_vars, producer_vars, set_vars, lock_vars, config_vars, socket_chan, run_local,
                   bank_done, tx, blockstore, delivered, hist_vars, removals, partition_out, socket_log>>

\* a producer that sends the partition variant first
RunSendPartitionFirst ==
    /\ run_pc = "send_orig_sock"
    /\ Len(socket_chan) < MaxQueue
    /\ socket_chan' = Append(socket_chan, run_local.last_shreds[1].partition)
    /\ socket_log' = Logged(socket_log, run_local.last_shreds[1].partition)
    /\ run_pc' = "send_part_sock"
    /\ UNCHANGED <<codec_vars, producer_vars, set_vars, lock_vars, config_vars, blockstore_chan,
                   run_local, bank_done, tx, blockstore, delivered, hist_vars,
                   removals, partition_out>>

\* line 233
RunSendOriginalSocket ==
    /\ run_pc = "send_orig_sock"
    /\ Len(socket_chan) < MaxQueue
    /\ socket_chan' = Append(socket_chan, run_local.last_shreds[1].original)
    /\ socket_log' = Logged(socket_log, run_local.last_shreds[1].original)
    /\ run_pc' = "send_part_sock"
    /\ UNCHANGED <<codec_vars, producer_vars, set_vars, lock_vars, config_vars, blockstore_chan,
                   run_local, bank_done, tx, blockstore, delivered, hist_vars,
                   removals, partition_out>>

\* line 234, and the end of run
RunSendPartitionSocket ==
    /\ run_pc = "send_part_sock"
    /\ Len(socket_chan) < MaxQueue
    /\ socket_chan' = Append(socket_chan, run_local.last_shreds[1].partition)
    /\ socket_log' = Logged(socket_log, run_local.last_shreds[1].partition)
    /\ run_pc' = "recv"
    /\ run_local' = NoLocal
    /\ UNCHANGED <<codec_vars, producer_vars, set_vars, lock_vars, config_vars, blockstore_chan,
                   bank_done, tx, blockstore, delivered, hist_vars, removals, partition_out>>


(* ------------------------------------------------------------------ *)
(* transmit (lines 239-343)                                             *)
(* ------------------------------------------------------------------ *)
\* socket_addr_space.check: get_broadcast_addrs is given the same address
\* space and returns only addresses that pass it
SocketAddrSpaceCheck(addr) == addr \in Addrs

\* lines 289-296: the peer that owns the first fan-out address; None when
\* there is no address, no peer of all_peers() has it, or the check fails
FanoutNode(addr, nodes) ==
    LET found == {n \in nodes : TvuOf[n] = addr}
    IN IF addr = NoAddr \/ found = {} THEN None
       ELSE LET node == CHOOSE n \in found : TRUE
            IN IF SocketAddrSpaceCheck(TvuOf[node]) THEN node ELSE None

\* what get_broadcast_addrs(shred).first() and all_peers() can give for a shred
Resolutions == {FanoutNode(addr, nodes) : addr \in Addrs \cup {NoAddr},
                                          nodes \in GossipViews}

\* the filter_map moves on to the next shred that reaches the tracking sets
\* (the shreds before it are dropped by the `?` of lines 292-296), or to
\* batch_send when there is none
RECURSIVE Advance(_, _)
Advance(st, i) ==
    IF i > Len(st.shreds)
    THEN {[st EXCEPT !.pc = "send", !.i = 0, !.node = None]}
    ELSE {[st EXCEPT !.i = i, !.node = n, !.pc = "lock_orig"] : n \in Resolutions \ {None}}
         \cup (IF None \in Resolutions THEN Advance(st, i + 1) ELSE {})

\* HashSet::remove (lines 301 and 316): whether it was present, and what is left
WasPresent(set, sig) == sig \in set
\* a look-up that leaves the signature in the set
SetRemoveNothing(set, sig) == set
SetRemove(set, sig) == set \ {sig}

\* routing that ignores the partition
RouteOriginalNoCheck(node, partition) == {TvuOf[node]}

\* lines 303-311 and 334: an original shred is dropped for a partition peer
RouteOriginal(node, partition) ==
    IF node \in partition THEN {} ELSE {TvuOf[node]}

\* force-delivery to every peer gossip knows
RoutePartitionAll(partition, known) == {TvuOf[p] : p \in known}

\* lines 322-331: a partition shred goes to every partition peer whose
\* contact info lookup_contact_info finds in gossip
RoutePartition(partition, known) ==
    {TvuOf[p] : p \in partition \cap known}

\* a normal shred sent to every peer
RouteNormalToAll(node) == {TvuOf[n] : n \in Nodes}

\* line 334
RouteNormal(node) == {TvuOf[node]}

Packets(shred, addrs) == {<<shred.signature, a>> : a \in addrs}

\* lines 246-285: recv under the receiver's mutex, the gossip peers, the
\* fan-out resolution of this batch
TransmitRecv(t) ==
    /\ tx[t].pc = "recv"
    /\ socket_chan # <<>>
    /\ LET shreds == Head(socket_chan)
       IN /\ socket_chan' = Tail(socket_chan)
          /\ IF shreds = <<>>
             THEN tx' = tx
             ELSE \E st \in Advance([IdleTx EXCEPT !.shreds = shreds], 1) :
                     tx' = [tx EXCEPT ![t] = st]
    /\ UNCHANGED <<codec_vars, producer_vars, set_vars, lock_vars, config_vars, blockstore_chan,
                   run_pc, run_local, bank_done, blockstore, delivered, hist_vars,
                   removals, partition_out, socket_log>>

\* line 299: original_last_data_shreds.lock()
TransmitLockOriginal(t) ==
    /\ tx[t].pc = "lock_orig"
    /\ orig_lock = None
    /\ orig_lock' = t
    /\ tx' = [tx EXCEPT ![t].pc = "remove_orig"]
    /\ UNCHANGED <<codec_vars, producer_vars, set_vars, part_lock, config_vars, socket_chan,
                   blockstore_chan, run_pc, run_local, bank_done, blockstore, delivered,
                   hist_vars, removals, partition_out, socket_log>>

Count(sig) == IF sig \in DOMAIN removals THEN removals[sig] ELSE 0
Counted(sig) == [s \in DOMAIN removals \cup {sig} |-> IF s = sig THEN Count(s) + 1
                                                        ELSE removals[s]]

\* a transmitter whose guard of the original set lives to the end of the
\* if-else chain: it goes on to the partition set with the guard in hand
TransmitRemoveOriginalHoldingGuard(t) ==
    LET st == tx[t]
        shred == st.shreds[st.i]
    IN /\ st.pc = "remove_orig"
       /\ original_last_data_shreds' = SetRemove(original_last_data_shreds, shred.signature)
       /\ IF WasPresent(original_last_data_shreds, shred.signature)
          THEN /\ orig_lock' = None
               /\ removals' = Counted(shred.signature)
               /\ \E nx \in Advance([st EXCEPT !.packets = @ \cup
                                      Packets(shred, RouteOriginal(st.node, cluster_partition))],
                                    st.i + 1) :
                     tx' = [tx EXCEPT ![t] = nx]
          ELSE /\ orig_lock' = orig_lock
               /\ removals' = removals
               /\ tx' = [tx EXCEPT ![t].pc = "lock_part"]
       /\ UNCHANGED <<codec_vars, producer_vars, partition_last_data_shreds, part_lock, config_vars,
                      socket_chan, blockstore_chan, run_pc, run_local, bank_done,
                      blockstore, delivered, hist_vars, partition_out, socket_log>>

\* lines 297-311: remove, drop the guard, and route when the signature was there
TransmitRemoveOriginal(t) ==
    LET st == tx[t]
        shred == st.shreds[st.i]
    IN /\ st.pc = "remove_orig"
       /\ original_last_data_shreds' = SetRemove(original_last_data_shreds, shred.signature)
       /\ orig_lock' = None
       /\ IF WasPresent(original_last_data_shreds, shred.signature)
          THEN /\ removals' = Counted(shred.signature)
               /\ \E nx \in Advance([st EXCEPT !.packets = @ \cup
                                      Packets(shred, RouteOriginal(st.node, cluster_partition))],
                                    st.i + 1) :
                     tx' = [tx EXCEPT ![t] = nx]
          ELSE /\ removals' = removals
               /\ tx' = [tx EXCEPT ![t].pc = "lock_part"]
       /\ UNCHANGED <<codec_vars, producer_vars, partition_last_data_shreds, part_lock, config_vars,
                      socket_chan, blockstore_chan, run_pc, run_local, bank_done,
                      blockstore, delivered, hist_vars, partition_out, socket_log>>

\* line 314: partition_last_data_shreds.lock()
TransmitLockPartition(t) ==
    /\ tx[t].pc = "lock_part"
    /\ part_lock = None
    /\ part_lock' = t
    /\ tx' = [tx EXCEPT ![t].pc = "remove_part"]
    /\ UNCHANGED <<codec_vars, producer_vars, set_vars, orig_lock, config_vars, socket_chan,
                   blockstore_chan, run_pc, run_local, bank_done, blockstore, delivered,
                   hist_vars, removals, partition_out, socket_log>>

\* lines 312-334
TransmitRemovePartition(t) ==
    LET st == tx[t]
        shred == st.shreds[st.i]
        present == WasPresent(partition_last_data_shreds, shred.signature)
    IN /\ st.pc = "remove_part"
       /\ partition_last_data_shreds' = SetRemove(partition_last_data_shreds, shred.signature)
       /\ part_lock' = None
       /\ removals' = IF present THEN Counted(shred.signature) ELSE removals
       /\ \E known \in GossipViews :
            LET addrs == IF present THEN RoutePartition(cluster_partition, known)
                         ELSE RouteNormal(st.node)
            IN \E nx \in Advance([st EXCEPT !.packets = @ \cup Packets(shred, addrs)],
                                 st.i + 1) :
                  tx' = [tx EXCEPT ![t] = nx]
       /\ UNCHANGED <<codec_vars, producer_vars, original_last_data_shreds, orig_lock, config_vars,
                      socket_chan, blockstore_chan, run_pc, run_local, bank_done,
                      blockstore, delivered, hist_vars, partition_out, socket_log>>

\* the packets of shreds that were ever tracked are kept as history
Tracked(sig) == sig \in inserted_original \cup inserted_partition

\* line 339: batch_send, and the end of transmit
TransmitSend(t) ==
    /\ tx[t].pc = "send"
    /\ delivered' = delivered \cup {p \in tx[t].packets : Tracked(p[1])}
    /\ tx' = [tx EXCEPT ![t] = IdleTx]
    /\ UNCHANGED <<codec_vars, producer_vars, set_vars, lock_vars, config_vars, socket_chan,
                   blockstore_chan, run_pc, run_local, bank_done, blockstore, hist_vars,
                   removals, partition_out, socket_log>>

(* ------------------------------------------------------------------ *)
(* record (lines 345-355)                                               *)
(* ------------------------------------------------------------------ *)
\* the store's history is kept for the slots that can be duplicated
Kept(shreds) == {shreds[i] : i \in {k \in 1..Len(shreds) :
                                      shreds[k].slot > MINIMUM_DUPLICATE_SLOT}}

Record ==
    /\ blockstore_chan # <<>>
    /\ blockstore' = blockstore \cup Kept(Head(blockstore_chan))
    /\ blockstore_chan' = Tail(blockstore_chan)
    /\ UNCHANGED <<codec_vars, producer_vars, set_vars, lock_vars, config_vars, socket_chan, run_pc,
                   run_local, bank_done, tx, delivered, hist_vars, removals, partition_out, socket_log>>

(* ------------------------------------------------------------------ *)
(* The pipeline                                                         *)
(* ------------------------------------------------------------------ *)
Next ==
    \/ RunRecv
    \/ RunSendBulkRecorder
    \/ RunSendBulkSocket
    \/ RunLockOriginal
    \/ RunExtendOriginal
    \/ RunLockPartition
    \/ RunExtendPartition
    \/ RunSendOriginalRecorder
    \/ RunSendOriginalSocket
    \/ RunSendPartitionSocket
    \/ \E t \in Transmitters : TransmitRecv(t)
    \/ \E t \in Transmitters : TransmitLockOriginal(t)
    \/ \E t \in Transmitters : TransmitRemoveOriginal(t)
    \/ \E t \in Transmitters : TransmitLockPartition(t)
    \/ \E t \in Transmitters : TransmitRemovePartition(t)
    \/ \E t \in Transmitters : TransmitSend(t)
    \/ Record

Spec == Init /\ [][Next]_vars

(* ------------------------------------------------------------------ *)
(* The partition as a function of its inputs                            *)
(* ------------------------------------------------------------------ *)
\* stake tables over any subset of the identities
StakeTables ==
    UNION {[S -> 1..MaxStake] : S \in SUBSET (Nodes \cup {SelfPubkey})}

InitPartition ==
    /\ InitRun
    /\ InitPipeline
    /\ InitCodec
    /\ stake_partition \in 0..MaxLimit
    /\ epoch_staked_nodes \in StakeTables

\* lines 264-279, on their own
ComputePartition ==
    /\ partition_out' = <<cluster_partition>>
    /\ UNCHANGED <<codec_vars, producer_vars, set_vars, lock_vars, config_vars, socket_chan,
                   blockstore_chan, run_pc, run_local, bank_done, tx, blockstore,
                   delivered, hist_vars, removals, socket_log>>

NextPartition == ComputePartition

SpecPartition == InitPartition /\ [][NextPartition]_vars


(* ------------------------------------------------------------------ *)
(* ledger/src/shred.rs: sizes and offsets                               *)
(* ------------------------------------------------------------------ *)
SIZE_OF_NONCE == 4
SIZE_OF_DATA_SHRED_HEADERS == 88
SIZE_OF_CODING_SHRED_HEADERS == 89
SIZE_OF_SIGNATURE == 64
SIZE_OF_SHRED_VARIANT == 1
SIZE_OF_SHRED_SLOT == 8
SIZE_OF_SHRED_INDEX == 4
OFFSET_OF_SHRED_VARIANT == SIZE_OF_SIGNATURE
OFFSET_OF_SHRED_SLOT == SIZE_OF_SIGNATURE + SIZE_OF_SHRED_VARIANT
OFFSET_OF_SHRED_INDEX == OFFSET_OF_SHRED_SLOT + SIZE_OF_SHRED_SLOT
LEGACY_SHRED_DATA_CAPACITY == 1051
\* the length of a legacy payload: a data shred's capacity is what the two
\* headers leave of it (notes a to c of the module's header)
SIZE_OF_PAYLOAD ==
    LEGACY_SHRED_DATA_CAPACITY + SIZE_OF_DATA_SHRED_HEADERS + SIZE_OF_CODING_SHRED_HEADERS
\* legacy::SIGNED_MESSAGE_RANGE: everything after the signature
SIGNED_MESSAGE_RANGE == [start |-> SIZE_OF_SIGNATURE, end |-> SIZE_OF_PAYLOAD]
\* crate::blockstore::MAX_DATA_SHREDS_PER_SLOT
MAX_DATA_SHREDS_PER_SLOT == 32768
\* ShredType as u8
DATA_TAG == 165
CODE_TAG == 90

\* how far around each boundary the sizes and indices of the inputs go
MaxSlack == 1

(* ------------------------------------------------------------------ *)
(* Bytes                                                                *)
(* ------------------------------------------------------------------ *)
\* an encoding that leaves out the high bytes that are zero
RECURSIVE LEBytesCompact(_, _)
LEBytesCompact(v, n) ==
    IF n = 0 \/ v = 0 THEN <<>> ELSE <<v % 256>> \o LEBytesCompact(v \div 256, n - 1)

\* bincode's fixed-width little-endian integers
RECURSIVE LEBytes(_, _)
LEBytes(v, n) == IF n = 0 THEN <<>> ELSE <<v % 256>> \o LEBytes(v \div 256, n - 1)

RECURSIVE FromLE(_)
FromLE(bytes) == IF bytes = <<>> THEN 0 ELSE bytes[1] + 256 * FromLE(Tail(bytes))

\* A byte slice is its length and the bytes of the header fields the layout
\* functions read: hdr[k] is the byte at offset SIZE_OF_SIGNATURE + k - 1. The
\* bytes at offsets of len and beyond are not part of the slice.
HeaderBytes(tag, slot, index) ==
    <<tag>> \o LEBytes(slot, SIZE_OF_SHRED_SLOT) \o LEBytes(index, SIZE_OF_SHRED_INDEX)

\* slice.get(offset)
Get(slice, offset) ==
    IF offset < slice.len THEN <<slice.hdr[offset - SIZE_OF_SIGNATURE + 1]>> ELSE <<>>

\* deserialize_from_with_limit(slice.get(offset..)?) of an integer of `width`
\* bytes: None when the slice ends before the integer does
DeserializeAt(slice, offset, width) ==
    IF offset > slice.len \/ slice.len - offset < width THEN <<>>
    ELSE <<FromLE(SubSeq(slice.hdr, offset - SIZE_OF_SIGNATURE + 1,
                         offset - SIZE_OF_SIGNATURE + width))>>

(* ------------------------------------------------------------------ *)
(* ShredType, ShredVariant and their conversions (lines 164-174, 590-620)*)
(* ------------------------------------------------------------------ *)
ShredTypeToU8(shred_type) == IF shred_type = "Data" THEN DATA_TAG ELSE CODE_TAG

ShredTypeFromVariant(shred_variant) ==
    IF shred_variant = "LegacyCode" THEN "Code" ELSE "Data"

ShredVariantToU8(shred_variant) ==
    IF shred_variant = "LegacyCode" THEN ShredTypeToU8("Code") ELSE ShredTypeToU8("Data")

\* a conversion that takes every byte with the high bit set for a data shred
ShredVariantTryFromHighBit(shred_variant) ==
    IF shred_variant = ShredTypeToU8("Code") THEN <<"Ok", "LegacyCode">>
    ELSE IF shred_variant >= 128 THEN <<"Ok", "LegacyData">>
    ELSE <<"Err", "InvalidShredVariant">>

ShredVariantTryFrom(shred_variant) ==
    IF shred_variant = ShredTypeToU8("Code") THEN <<"Ok", "LegacyCode">>
    ELSE IF shred_variant = ShredTypeToU8("Data") THEN <<"Ok", "LegacyData">>
    ELSE <<"Err", "InvalidShredVariant">>

(* ------------------------------------------------------------------ *)
(* mod layout (lines 508-577)                                           *)
(* ------------------------------------------------------------------ *)
\* packet.data(..): the first meta.size bytes of the packet's buffer
PacketData(pkt) == [len |-> pkt.size, hdr |-> pkt.hdr]

get_shred_size(pkt) ==
    IF pkt.repair
    THEN (IF pkt.size >= SIZE_OF_NONCE THEN <<pkt.size - SIZE_OF_NONCE>> ELSE <<>>)
    ELSE <<pkt.size>>

get_shred(pkt) ==
    LET size == get_shred_size(pkt)
    IN IF size = <<>> THEN <<>>
       ELSE IF size[1] >= SIZE_OF_SIGNATURE
            THEN <<[len |-> size[1], hdr |-> pkt.hdr]>>
            ELSE <<>>

get_shred_variant(slice) ==
    LET shred_variant == Get(slice, OFFSET_OF_SHRED_VARIANT)
    IN IF shred_variant = <<>> THEN <<"Err", "InvalidPayloadSize">>
       ELSE ShredVariantTryFrom(shred_variant[1])

get_shred_type(slice) ==
    LET shred_variant == get_shred_variant(slice)
    IN IF shred_variant[1] = "Err" THEN shred_variant
       ELSE <<"Ok", ShredTypeFromVariant(shred_variant[2])>>

get_slot(slice) == DeserializeAt(slice, OFFSET_OF_SHRED_SLOT, SIZE_OF_SHRED_SLOT)

get_index(slice) == DeserializeAt(slice, OFFSET_OF_SHRED_INDEX, SIZE_OF_SHRED_INDEX)

\* line 561: (shred.len() <= range.end).then(|| range)
RangeIfLenAtMostEnd(len, range) == IF len <= range.end THEN <<range>> ELSE <<>>

get_signed_message_range(slice) ==
    LET shred_variant == get_shred_variant(slice)
    IN IF shred_variant[1] = "Err" THEN <<>>
       ELSE RangeIfLenAtMostEnd(slice.len, SIGNED_MESSAGE_RANGE)

(* ------------------------------------------------------------------ *)
(* get_shred_slot_index_type (lines 623-664)                            *)
(* ------------------------------------------------------------------ *)
ShredFetchStatsDefault ==
    [index_overrun |-> 0, bad_shred_type |-> 0, slot_bad_deserialize |-> 0,
     index_bad_deserialize |-> 0, index_out_of_bounds |-> 0]

\* a count that charges index_overrun as well
CountingOverrunToo(st, counter) ==
    [st EXCEPT ![counter] = @ + 1, !["index_overrun"] = @ + 1]

Counting(st, counter) == [st EXCEPT ![counter] = @ + 1]

\* a bound check that lets the cap itself through
IndexBeyondCap(index) == index > MAX_DATA_SHREDS_PER_SLOT

\* line 659
IndexOutOfBounds(index) == index >= MAX_DATA_SHREDS_PER_SLOT

\* the value returned and the counters afterwards
get_shred_slot_index_type(pkt, st) ==
    LET slice == get_shred(pkt)
    IN IF slice = <<>>
       THEN [value |-> <<>>, stats |-> Counting(st, "index_overrun")]
       ELSE IF OFFSET_OF_SHRED_INDEX + SIZE_OF_SHRED_INDEX > slice[1].len
       THEN [value |-> <<>>, stats |-> Counting(st, "index_overrun")]
       ELSE LET shred_type == get_shred_type(slice[1])
                slot == get_slot(slice[1])
                index == get_index(slice[1])
            IN IF shred_type[1] = "Err"
               THEN [value |-> <<>>, stats |-> Counting(st, "bad_shred_type")]
               ELSE IF slot = <<>>
               THEN [value |-> <<>>, stats |-> Counting(st, "slot_bad_deserialize")]
               ELSE IF index = <<>>
               THEN [value |-> <<>>, stats |-> Counting(st, "index_bad_deserialize")]
               ELSE IF IndexOutOfBounds(index[1])
               THEN [value |-> <<>>, stats |-> Counting(st, "index_out_of_bounds")]
               ELSE [value |-> <<<<slot[1], index[1], shred_type[2]>>>>, stats |-> st]

(* ------------------------------------------------------------------ *)
(* The functions of shred.rs applied to bounded inputs                  *)
(* ------------------------------------------------------------------ *)
Around(c) == {n \in (c - MaxSlack)..(c + MaxSlack) : n >= 0}

\* the largest packet: a payload and the nonce of a repair response
PacketCapacity == SIZE_OF_PAYLOAD + SIZE_OF_NONCE

PacketSizes ==
    {n \in UNION {Around(c) : c \in {0, SIZE_OF_NONCE, SIZE_OF_SIGNATURE,
                                     SIZE_OF_SIGNATURE + SIZE_OF_NONCE,
                                     OFFSET_OF_SHRED_SLOT, OFFSET_OF_SHRED_INDEX,
                                     OFFSET_OF_SHRED_INDEX + SIZE_OF_SHRED_INDEX,
                                     OFFSET_OF_SHRED_INDEX + SIZE_OF_SHRED_INDEX
                                         + SIZE_OF_NONCE,
                                     SIZE_OF_PAYLOAD, PacketCapacity}} :
        n <= PacketCapacity}

\* the two tags, and the bytes test_shred_variant_compat and test_shred_offsets try
TagBytes == {DATA_TAG, CODE_TAG, 0, 1, 80, 160, 255}
SlotValues == {1, 141939602}
IndexValues == {3} \cup Around(MAX_DATA_SHREDS_PER_SLOT)

PacketInputs ==
    {[size |-> n, repair |-> r, hdr |-> HeaderBytes(tag, slot, index)] :
        n \in PacketSizes, r \in BOOLEAN, tag \in TagBytes,
        slot \in SlotValues, index \in IndexValues}

InitLayout ==
    /\ InitRun
    /\ InitPipeline
    /\ stake_partition = StakePartition
    /\ epoch_staked_nodes = MainStakes
    /\ args = <<>>
    /\ packet \in {<<pkt>> : pkt \in PacketInputs}
    /\ stats = <<ShredFetchStatsDefault>>
    /\ shred_self = <<>>
    /\ shred_other = <<>>
    /\ result = <<>>

Applied(op, value) == <<[op |-> op, value |-> value]>>

GetShredVariant ==
    /\ packet # <<>> /\ result = <<>>
    /\ result' = Applied("get_shred_variant", get_shred_variant(PacketData(packet[1])))
    /\ UNCHANGED <<pipeline_vars, packet, stats, shred_self, shred_other, args>>

GetSignedMessageRange ==
    /\ packet # <<>> /\ result = <<>>
    /\ result' = Applied("get_signed_message_range",
                         get_signed_message_range(PacketData(packet[1])))
    /\ UNCHANGED <<pipeline_vars, packet, stats, shred_self, shred_other, args>>

GetShredSlotIndexType ==
    /\ packet # <<>> /\ result = <<>>
    /\ LET ret == get_shred_slot_index_type(packet[1], stats[1])
       IN /\ result' = Applied("get_shred_slot_index_type", ret.value)
          /\ stats' = <<ret.stats>>
    /\ UNCHANGED <<pipeline_vars, packet, shred_self, shred_other, args>>

NextLayout ==
    \/ GetShredVariant
    \/ GetSignedMessageRange
    \/ GetShredSlotIndexType

SpecLayout == InitLayout /\ [][NextLayout]_vars

(* ------------------------------------------------------------------ *)
(* ShredFlags (lines 111-118)                                           *)
(* ------------------------------------------------------------------ *)
SHRED_TICK_REFERENCE_MASK == 63
DATA_COMPLETE_SHRED == 64
LAST_SHRED_IN_SLOT == 192

RECURSIVE BitAnd(_, _)
BitAnd(a, b) ==
    IF a = 0 \/ b = 0 THEN 0
    ELSE (a % 2) * (b % 2) + 2 * BitAnd(a \div 2, b \div 2)

RECURSIVE BitOr(_, _)
BitOr(a, b) ==
    IF a = 0 THEN b
    ELSE IF b = 0 THEN a
    ELSE (IF a % 2 = 1 \/ b % 2 = 1 THEN 1 ELSE 0) + 2 * BitOr(a \div 2, b \div 2)

Contains(flags, mask) == BitAnd(flags, mask) = mask
Intersects(flags, mask) == BitAnd(flags, mask) # 0

(* ------------------------------------------------------------------ *)
(* enum Shred (lines 204-207) and the headers (lines 178-201)           *)
(* ------------------------------------------------------------------ *)
\* struct ShredCommonHeader but for the variant, which the shred type gives
ShredCommonHeader(signature, slot, index, version, fec_set_index) ==
    [signature |-> signature, slot |-> slot, index |-> index,
     version |-> version, fec_set_index |-> fec_set_index]

\* Shred::ShredData: the common header, the data header and the data
ShredData(common, parent_offset, flags, size, body) ==
    [variant |-> "LegacyData", signature |-> common.signature,
     slot |-> common.slot, index |-> common.index, version |-> common.version,
     fec_set_index |-> common.fec_set_index,
     parent_offset |-> parent_offset, flags |-> flags, size |-> size,
     body |-> body]

\* Shred::ShredCode: the common header, the coding header and the parity shard
ShredCode(common, num_data, num_coding, position, body) ==
    [variant |-> "LegacyCode", signature |-> common.signature,
     slot |-> common.slot, index |-> common.index, version |-> common.version,
     fec_set_index |-> common.fec_set_index,
     num_data_shreds |-> num_data, num_coding_shreds |-> num_coding,
     position |-> position, body |-> body]

IsShredCode(s) == s.variant = "LegacyCode"
IsShredData(s) == s.variant = "LegacyData"

\* what the two shred types do themselves (shred_data.rs, shred_code.rs,
\* legacy.rs)
ShredDataParent(s) ==
    IF s.slot = 0 /\ s.parent_offset = 0 THEN <<"Ok", 0>>
    ELSE IF s.parent_offset = 0 \/ s.parent_offset > s.slot
         THEN <<"Err", "InvalidParentOffset">>
         ELSE <<"Ok", s.slot - s.parent_offset>>

ShredDataData(s) ==
    IF s.size > SIZE_OF_PAYLOAD \/ s.size < SIZE_OF_DATA_SHRED_HEADERS
    THEN <<"Err", "InvalidDataSize">>
    ELSE <<"Ok", s.body>>

ShredCodeFirstCodingIndex(s) ==
    IF s.index >= s.position THEN <<s.index - s.position>> ELSE <<>>

ShredCodeErasureMismatch(s, o) ==
    \/ s.num_data_shreds # o.num_data_shreds
    \/ s.num_coding_shreds # o.num_coding_shreds
    \/ ShredCodeFirstCodingIndex(s) # ShredCodeFirstCodingIndex(o)

ShredDataSanitize(s) ==
    IF s.index >= MAX_DATA_SHREDS_PER_SLOT THEN <<"Err", "InvalidShredIndex">>
    ELSE IF ShredDataParent(s)[1] = "Err" THEN ShredDataParent(s)
    ELSE IF ShredDataData(s)[1] = "Err" THEN ShredDataData(s)
    ELSE IF /\ Intersects(s.flags, LAST_SHRED_IN_SLOT)
            /\ ~Contains(s.flags, DATA_COMPLETE_SHRED)
         THEN <<"Err", "InvalidShredFlags">>
         ELSE <<"Ok", "unit">>

ShredCodeSanitize(s) ==
    IF s.index >= MAX_DATA_SHREDS_PER_SLOT THEN <<"Err", "InvalidShredIndex">>
    ELSE IF s.num_coding_shreds = 0 \/ s.num_data_shreds = 0
         THEN <<"Err", "InvalidNumCodingShreds">>
    ELSE IF s.position >= s.num_coding_shreds \/ ShredCodeFirstCodingIndex(s) = <<>>
         THEN <<"Err", "InvalidErasureShardIndex">>
         ELSE <<"Ok", "unit">>

\* dispatch!(pub fn sanitize(&self))
sanitize(s) == IF IsShredCode(s) THEN ShredCodeSanitize(s) ELSE ShredDataSanitize(s)

\* the bytes of a signature: 64 of them, all standing for the one signature
SignatureBytes(signature) == [i \in 1..SIZE_OF_SIGNATURE |-> signature]

\* the headers serialized, field after field
CommonHeaderBytes(s) ==
    SignatureBytes(s.signature)
    \o HeaderBytes(ShredVariantToU8(s.variant), s.slot, s.index)
    \o LEBytes(s.version, 2) \o LEBytes(s.fec_set_index, 4)

DataHeaderBytes(s) == LEBytes(s.parent_offset, 2) \o <<s.flags>> \o LEBytes(s.size, 2)

CodingHeaderBytes(s) ==
    LEBytes(s.num_data_shreds, 2) \o LEBytes(s.num_coding_shreds, 2)
    \o LEBytes(s.position, 2)

\* dispatch!(pub fn payload(&self)): the headers serialized in the order of
\* their fields, then the data or the parity shard
payload(s) ==
    [len |-> SIZE_OF_PAYLOAD,
     signature |-> s.signature,
     hdr |-> HeaderBytes(ShredVariantToU8(s.variant), s.slot, s.index),
     tail |-> LEBytes(s.version, 2) \o LEBytes(s.fec_set_index, 4)
              \o (IF IsShredCode(s) THEN CodingHeaderBytes(s) ELSE DataHeaderBytes(s)),
     body |-> s.body]

\* the common header deserialized
CommonHeaderOf(bytes) ==
    ShredCommonHeader(bytes.signature,
                      FromLE(SubSeq(bytes.hdr, 2, 9)),
                      FromLE(SubSeq(bytes.hdr, 10, 13)),
                      FromLE(SubSeq(bytes.tail, 1, 2)),
                      FromLE(SubSeq(bytes.tail, 3, 6)))

\* legacy::ShredData::from_payload: the headers deserialized, then sanitize
ShredDataFromPayload(bytes) ==
    IF bytes.len < SIZE_OF_DATA_SHRED_HEADERS THEN <<"Err", "InvalidPayloadSize">>
    ELSE LET s == ShredData(CommonHeaderOf(bytes),
                            FromLE(SubSeq(bytes.tail, 7, 8)),
                            bytes.tail[9],
                            FromLE(SubSeq(bytes.tail, 10, 11)),
                            bytes.body)
         IN IF bytes.hdr[1] # ShredTypeToU8("Data") THEN <<"Err", "InvalidShredVariant">>
            ELSE IF sanitize(s)[1] = "Err" THEN sanitize(s)
            ELSE <<"Ok", s>>

\* legacy::ShredCode::from_payload
ShredCodeFromPayload(bytes) ==
    IF bytes.len < SIZE_OF_CODING_SHRED_HEADERS THEN <<"Err", "InvalidPayloadSize">>
    ELSE LET s == ShredCode(CommonHeaderOf(bytes),
                            FromLE(SubSeq(bytes.tail, 7, 8)),
                            FromLE(SubSeq(bytes.tail, 9, 10)),
                            FromLE(SubSeq(bytes.tail, 11, 12)),
                            bytes.body)
         IN IF bytes.hdr[1] # ShredTypeToU8("Code") THEN <<"Err", "InvalidShredVariant">>
            ELSE IF sanitize(s)[1] = "Err" THEN sanitize(s)
            ELSE <<"Ok", s>>

(* ------------------------------------------------------------------ *)
(* impl Shred (lines 318-329, 358-503)                                  *)
(* ------------------------------------------------------------------ *)
\* a constructor that takes every payload for a data shred
NewFromSerializedShredAsData(bytes) ==
    LET shred_variant == get_shred_variant(bytes)
    IN IF shred_variant[1] = "Err" THEN shred_variant
       ELSE ShredDataFromPayload(bytes)

new_from_serialized_shred(bytes) ==
    LET shred_variant == get_shred_variant(bytes)
    IN IF shred_variant[1] = "Err" THEN shred_variant
       ELSE IF shred_variant[2] = "LegacyCode" THEN ShredCodeFromPayload(bytes)
       ELSE ShredDataFromPayload(bytes)

\* a parent that answers for a coding shred with the slot itself
ParentOrOwnSlot(s) == IF IsShredCode(s) THEN <<"Ok", s.slot>> ELSE ShredDataParent(s)

parent(s) ==
    IF IsShredCode(s) THEN <<"Err", "InvalidShredType">> ELSE ShredDataParent(s)

data(s) ==
    IF IsShredCode(s) THEN <<"Err", "InvalidShredType">> ELSE ShredDataData(s)

first_coding_index(s) ==
    IF IsShredCode(s) THEN ShredCodeFirstCodingIndex(s) ELSE <<>>

last_in_slot(s) ==
    IF IsShredCode(s) THEN FALSE ELSE Contains(s.flags, LAST_SHRED_IN_SLOT)

\* a set_last_in_slot that sets the high bit alone
SetHighBitOnly(s) ==
    IF IsShredCode(s) THEN s
    ELSE [s EXCEPT !.flags = BitOr(@, LAST_SHRED_IN_SLOT - DATA_COMPLETE_SHRED)]

\* the shred afterwards
set_last_in_slot(s) ==
    IF IsShredCode(s) THEN s
    ELSE [s EXCEPT !.flags = BitOr(@, LAST_SHRED_IN_SLOT)]

data_complete(s) ==
    IF IsShredCode(s) THEN FALSE ELSE Contains(s.flags, DATA_COMPLETE_SHRED)

\* a reference tick of zero for a coding shred
ReferenceTickOrZero(s) ==
    IF IsShredCode(s) THEN 0 ELSE BitAnd(s.flags, SHRED_TICK_REFERENCE_MASK)

reference_tick(s) ==
    IF IsShredCode(s) THEN SHRED_TICK_REFERENCE_MASK
    ELSE BitAnd(s.flags, SHRED_TICK_REFERENCE_MASK)

erasure_mismatch(s, o) ==
    IF IsShredCode(s) /\ IsShredCode(o)
    THEN <<"Ok", ShredCodeErasureMismatch(s, o)>>
    ELSE <<"Err", "InvalidShredType">>

num_data_shreds(s) ==
    IF IsShredCode(s) THEN <<"Ok", s.num_data_shreds>>
    ELSE <<"Err", "InvalidShredType">>

num_coding_shreds(s) ==
    IF IsShredCode(s) THEN <<"Ok", s.num_coding_shreds>>
    ELSE <<"Err", "InvalidShredType">>

(* ------------------------------------------------------------------ *)
(* The operations of Shred applied to bounded inputs                    *)
(* ------------------------------------------------------------------ *)
\* the shreds of test_invalid_parent_offset and of the serde tests, and
\* their neighbours
ShredSlots == {10, 141939602}
ShredIndices == {1, 28685}
ParentOffsets == {1, 1000, 36390}
\* empty, data complete, last in slot, and the last-in-slot bit alone;
\* reference tick 0 or 37
FlagBytes == {0, 37, 64 + 37, 192 + 37, 128}
DataSizes == Around(SIZE_OF_DATA_SHRED_HEADERS) \cup {SIZE_OF_PAYLOAD - SIZE_OF_CODING_SHRED_HEADERS}
ShredCounts == {1, 32}
Positions == 0..MaxSlack

\* version and fec_set_index of test_serde_compat_shred_data
CommonHeaders ==
    {ShredCommonHeader("sig", slot, index, 45189, 28657) :
        slot \in ShredSlots, index \in ShredIndices}

DataShreds ==
    {ShredData(common, parent_offset, flags, size, "d") :
        common \in CommonHeaders, parent_offset \in ParentOffsets,
        flags \in FlagBytes, size \in DataSizes}

CodeShreds ==
    {ShredCode(common, num_data, num_coding, position, "p") :
        common \in CommonHeaders, num_data \in ShredCounts,
        num_coding \in ShredCounts, position \in Positions}

\* the second shred of erasure_mismatch
OtherShreds ==
    {s \in DataShreds \cup CodeShreds :
        /\ s.slot = 10 /\ s.index = 1
        /\ IsShredData(s) => s.parent_offset = 1 /\ s.flags = 0
                             /\ s.size = SIZE_OF_DATA_SHRED_HEADERS
        /\ IsShredCode(s) => s.num_coding_shreds = 1 /\ s.position = 0}

InitShred ==
    /\ InitRun
    /\ InitPipeline
    /\ stake_partition = StakePartition
    /\ epoch_staked_nodes = MainStakes
    /\ args = <<>>
    /\ packet = <<>>
    /\ stats = <<>>
    /\ shred_self \in {<<s>> : s \in DataShreds \cup CodeShreds}
    /\ shred_other \in {<<o>> : o \in OtherShreds}
    /\ result = <<>>

\* an operation that leaves the shred as it is; one is applied to a shred,
\* as it was made or after set_last_in_slot
Reads(op, value) ==
    /\ shred_self # <<>>
    /\ IF result = <<>> THEN TRUE ELSE result[1].op = "set_last_in_slot"
    /\ result' = Applied(op, value)
    /\ UNCHANGED <<pipeline_vars, packet, stats, shred_self, shred_other, args>>

NewFromSerializedShred ==
    Reads("new_from_serialized_shred", new_from_serialized_shred(payload(shred_self[1])))

Parent == Reads("parent", parent(shred_self[1]))

Data == Reads("data", data(shred_self[1]))

FirstCodingIndex == Reads("first_coding_index", first_coding_index(shred_self[1]))

LastInSlot == Reads("last_in_slot", last_in_slot(shred_self[1]))

DataComplete == Reads("data_complete", data_complete(shred_self[1]))

ReferenceTick == Reads("reference_tick", reference_tick(shred_self[1]))

ErasureMismatch ==
    Reads("erasure_mismatch", erasure_mismatch(shred_self[1], shred_other[1]))

NumDataShreds == Reads("num_data_shreds", num_data_shreds(shred_self[1]))

NumCodingShreds == Reads("num_coding_shreds", num_coding_shreds(shred_self[1]))

\* the shred as it was is kept in shred_other
SetLastInSlot ==
    /\ shred_self # <<>> /\ result = <<>>
    /\ shred_self' = <<set_last_in_slot(shred_self[1])>>
    /\ shred_other' = shred_self
    /\ result' = Applied("set_last_in_slot", "unit")
    /\ UNCHANGED <<pipeline_vars, packet, stats, args>>

NextShred ==
    \/ NewFromSerializedShred
    \/ Parent
    \/ Data
    \/ FirstCodingIndex
    \/ LastInSlot
    \/ SetLastInSlot
    \/ DataComplete
    \/ ReferenceTick
    \/ ErasureMismatch
    \/ NumDataShreds
    \/ NumCodingShreds

SpecShred == InitShred /\ [][NextShred]_vars

(* ------------------------------------------------------------------ *)
(* Shred::new_from_data (lines 296-316), layout::get_reference_tick     *)
(* (lines 564-575) and test_shred_flags (lines 1136-1185)               *)
(* ------------------------------------------------------------------ *)
SIZE_OF_COMMON_SHRED_HEADER == 83
SIZE_OF_PARENT_OFFSET == 2
OFFSET_OF_SHRED_FLAGS == SIZE_OF_COMMON_SHRED_HEADER + SIZE_OF_PARENT_OFFSET

\* the byte at an offset after the index, where the slice is a payload
GetAfterIndex(slice, offset) ==
    IF offset < slice.len
    THEN <<slice.tail[offset - (OFFSET_OF_SHRED_INDEX + SIZE_OF_SHRED_INDEX) + 1]>>
    ELSE <<>>

\* a reference tick read without the mask
GetReferenceTickUnmasked(slice) ==
    LET shred_type == get_shred_type(slice)
        flags == GetAfterIndex(slice, OFFSET_OF_SHRED_FLAGS)
    IN IF shred_type[1] = "Err" THEN shred_type
       ELSE IF shred_type[2] # "Data" THEN <<"Err", "InvalidShredType">>
       ELSE IF flags = <<>> THEN <<"Err", "InvalidPayloadSize">>
       ELSE <<"Ok", flags[1]>>

get_reference_tick(slice) ==
    LET shred_type == get_shred_type(slice)
        flags == GetAfterIndex(slice, OFFSET_OF_SHRED_FLAGS)
    IN IF shred_type[1] = "Err" THEN shred_type
       ELSE IF shred_type[2] # "Data" THEN <<"Err", "InvalidShredType">>
       ELSE IF flags = <<>> THEN <<"Err", "InvalidPayloadSize">>
       ELSE <<"Ok", BitAnd(flags[1], SHRED_TICK_REFERENCE_MASK)>>

Min(a, b) == IF a <= b THEN a ELSE b

\* ShredData::new_from_data: the reference tick goes into the low six bits of
\* the flags, clamped to what they hold
FlagsWithReferenceTick(flags, tick) ==
    BitOr(flags, Min(tick, SHRED_TICK_REFERENCE_MASK))

\* a shred of `len` bytes of data, not signed yet
new_from_data(slot, index, parent_offset, len, flags, tick, version, fec_set_index) ==
    ShredData(ShredCommonHeader("default", slot, index, version, fec_set_index),
              parent_offset, FlagsWithReferenceTick(flags, tick),
              SIZE_OF_DATA_SHRED_HEADERS + len, "d")

\* test_shred_flags: make_shred
MakeShredFlags(is_last_data, is_last_in_slot) ==
    IF is_last_in_slot THEN LAST_SHRED_IN_SLOT
    ELSE IF is_last_data THEN DATA_COMPLETE_SHRED
    ELSE 0

make_shred(is_last_data, is_last_in_slot, tick) ==
    new_from_data(0, 0, 0, 0, MakeShredFlags(is_last_data, is_last_in_slot),
                  tick, 0, 0)

ReferenceTicks == 0..255

\* is_last_in_slot && is_last_data: last in slot implies data complete
FlagInputs ==
    {[is_last_data |-> d, is_last_in_slot |-> l, reference_tick |-> t] :
        d \in BOOLEAN, l \in BOOLEAN, t \in ReferenceTicks}

InitFlags ==
    /\ InitRun
    /\ InitPipeline
    /\ stake_partition = StakePartition
    /\ epoch_staked_nodes = MainStakes
    /\ args \in {<<[a EXCEPT !.is_last_in_slot = a.is_last_in_slot /\ a.is_last_data]>> :
                    a \in FlagInputs}
    /\ packet = <<>>
    /\ stats = <<>>
    /\ shred_self = <<>>
    /\ shred_other = <<>>
    /\ result = <<>>

MakeShred ==
    /\ args # <<>> /\ shred_self = <<>>
    /\ shred_self' = <<make_shred(args[1].is_last_data, args[1].is_last_in_slot,
                                  args[1].reference_tick)>>
    /\ UNCHANGED <<pipeline_vars, packet, stats, shred_other, result, args>>

GetReferenceTick ==
    Reads("get_reference_tick", get_reference_tick(payload(shred_self[1])))

NextFlags ==
    \/ MakeShred
    \/ SetLastInSlot
    \/ DataComplete
    \/ LastInSlot
    \/ ReferenceTick
    \/ GetReferenceTick

SpecFlags == InitFlags /\ [][NextFlags]_vars

(* ------------------------------------------------------------------ *)
(* Shred::seed (lines 418-434), add_shred_type_to_shred_seed (713-726)  *)
(* ------------------------------------------------------------------ *)
\* EpochSchedule: epochs of one length
SlotsPerEpoch == 32
get_epoch(slot) == slot \div SlotsPerEpoch

\* the bank: its slot and feature_set.activated_slot of the feature
Bank(slot, feature_slot) == [slot |-> slot, feature_slot |-> feature_slot]

add_shred_type_to_shred_seed(shred_slot, bank) ==
    LET feature_slot == bank.feature_slot
    IN IF feature_slot = <<>> THEN FALSE
       ELSE LET feature_epoch == get_epoch(feature_slot[1])
                shred_epoch == get_epoch(shred_slot)
            IN feature_epoch < shred_epoch

\* hashv of the byte slices: a hash that tells any two inputs apart
hashv(slices) == <<"hashv", slices>>

\* a seed gated by the slot of the root bank
SeedGatedByRootSlot(s, leader_pubkey, root_bank) ==
    IF add_shred_type_to_shred_seed(root_bank.slot, root_bank)
    THEN hashv(<<LEBytes(s.slot, 8),
                 <<ShredTypeToU8(ShredTypeFromVariant(s.variant))>>,
                 LEBytes(s.index, 4), leader_pubkey>>)
    ELSE hashv(<<LEBytes(s.slot, 8), LEBytes(s.index, 4), leader_pubkey>>)

seed(s, leader_pubkey, root_bank) ==
    IF add_shred_type_to_shred_seed(s.slot, root_bank)
    THEN hashv(<<LEBytes(s.slot, 8),
                 <<ShredTypeToU8(ShredTypeFromVariant(s.variant))>>,
                 LEBytes(s.index, 4), leader_pubkey>>)
    ELSE hashv(<<LEBytes(s.slot, 8), LEBytes(s.index, 4), leader_pubkey>>)

\* slots on both sides of the first two epoch boundaries
SeedSlots == {0} \cup Around(SlotsPerEpoch) \cup Around(2 * SlotsPerEpoch)

SeedShreds ==
    {ShredData(ShredCommonHeader("sig", slot, index, 0, 0), 0, 0,
               SIZE_OF_DATA_SHRED_HEADERS, "d") : slot \in SeedSlots, index \in 0..MaxSlack}
    \cup {ShredCode(ShredCommonHeader("sig", slot, index, 0, 0), 1, 1, 0, "p") :
              slot \in SeedSlots, index \in 0..MaxSlack}

SeedBanks ==
    {Bank(slot, feature_slot) :
        slot \in SeedSlots, feature_slot \in {<<>>} \cup {<<f>> : f \in SeedSlots}}

InitSeed ==
    /\ InitRun
    /\ InitPipeline
    /\ stake_partition = StakePartition
    /\ epoch_staked_nodes = MainStakes
    /\ args \in {<<[leader_pubkey |-> SelfPubkey, root_bank |-> bank]>> : bank \in SeedBanks}
    /\ packet = <<>>
    /\ stats = <<>>
    /\ shred_self \in {<<s>> : s \in SeedShreds}
    /\ shred_other = <<>>
    /\ result = <<>>

Seed ==
    /\ args # <<>>
    /\ Reads("seed", seed(shred_self[1], args[1].leader_pubkey, args[1].root_bank))

NextSeed == Seed

SpecSeed == InitSeed /\ [][NextSeed]_vars

(* ------------------------------------------------------------------ *)
(* test_shred_constants (lines 743-799): the sizes of the headers       *)
(* ------------------------------------------------------------------ *)
\* bincode::serialized_size
serialized_size(bytes) == Len(bytes)

\* zero and the largest values of the fields, where the integers of the
\* model hold them
WideValues == {0, 2147483647}
ShortValues == {0, 65535}

SizeShreds ==
    {ShredData(ShredCommonHeader("sig", slot, index, version, fec_set_index),
               parent_offset, flags, size, "d") :
        slot \in WideValues, index \in WideValues, version \in ShortValues,
        fec_set_index \in WideValues, parent_offset \in ShortValues,
        flags \in {0, 255}, size \in {1000, 65535}}
    \cup {ShredCode(ShredCommonHeader("sig", slot, index, version, fec_set_index),
                    num_data, num_coding, position, "p") :
              slot \in WideValues, index \in WideValues, version \in ShortValues,
              fec_set_index \in WideValues, num_data \in ShortValues,
              num_coding \in ShortValues, position \in ShortValues}

InitSizes ==
    /\ InitRun
    /\ InitPipeline
    /\ stake_partition = StakePartition
    /\ epoch_staked_nodes = MainStakes
    /\ args = <<>>
    /\ packet = <<>>
    /\ stats = <<>>
    /\ shred_self \in {<<s>> : s \in SizeShreds}
    /\ shred_other = <<>>
    /\ result = <<>>

SerializedSizeCommonHeader ==
    Reads("serialized_size(common_header)",
          serialized_size(CommonHeaderBytes(shred_self[1])))

SerializedSizeDataHeader ==
    /\ shred_self # <<>> /\ IsShredData(shred_self[1])
    /\ Reads("serialized_size(data_shred_header)",
             serialized_size(DataHeaderBytes(shred_self[1])))

SerializedSizeCodingHeader ==
    /\ shred_self # <<>> /\ IsShredCode(shred_self[1])
    /\ Reads("serialized_size(coding_shred_header)",
             serialized_size(CodingHeaderBytes(shred_self[1])))

NextSizes ==
    \/ SerializedSizeCommonHeader
    \/ SerializedSizeDataHeader
    \/ SerializedSizeCodingHeader

SpecSizes == InitSizes /\ [][NextSizes]_vars

(* ------------------------------------------------------------------ *)
(* Vocabulary of the properties                                         *)
(* ------------------------------------------------------------------ *)
\* the peer a TVU address belongs to
Owner(addr) == CHOOSE n \in Nodes : TvuOf[n] = addr
\* the slot is part of the signed message
SignedSlot(sig) == sig[1]
SignedIndex(sig) == sig[2]

Forking == run_local.last_shreds # <<>>
\* a terminal signature that run holds and has not yet put on the socket channel
Unsent(sig) ==
    /\ Forking
    /\ \/ sig \in Signatures(run_local.last_shreds[1].partition)
       \/ /\ sig \in Signatures(run_local.last_shreds[1].original)
          /\ run_pc # "send_part_sock"
\* in the socket channel, or with a transmitter that has not finished its call
InFlight(sig) ==
    \/ \E i \in 1..Len(socket_chan) : sig \in Signatures(socket_chan[i])
    \/ \E t \in Transmitters : tx[t].pc # "recv" /\ sig \in Signatures(tx[t].shreds)
\* the transmit call that received the shred of this signature has returned
Transmitted(sig) == Tracked(sig) /\ ~Unsent(sig) /\ ~InFlight(sig)
SentTo(sig) == {Owner(p[2]) : p \in {q \in delivered : q[1] = sig}}
Dropped(sig) == Transmitted(sig) /\ Count(sig) = 1 /\ SentTo(sig) = {}
Quiescent == run_pc = "recv" /\ Drained
Stored(sig) == \E s \in blockstore : s.signature = sig

(* ------------------------------------------------------------------ *)
(* C1                                                                   *)
(* ------------------------------------------------------------------ *)
\* C1: in a forked slot the original terminal shred is marked last-in-slot and
\* the partition terminal shred is not.
C1_OriginalLastPartitionNotLast ==
    Forking =>
        LET original == run_local.last_shreds[1].original
            partition == run_local.last_shreds[1].partition
        IN /\ original[Len(original)].last_in_slot
           /\ \A i \in 1..Len(partition) : ~partition[i].last_in_slot

(* ------------------------------------------------------------------ *)
(* C2                                                                   *)
(* ------------------------------------------------------------------ *)
\* C2: no packet of a shred recorded in original_last_data_shreds, pending or
\* sent, is addressed to a peer of the partition set; and the routing step
\* that finds its signature, with a fan-out peer outside the partition set,
\* adds the packet for that peer's TVU address.
C2_NoOriginalPacketToPartition ==
    /\ \A p \in delivered :
          p[1] \in inserted_original => Owner(p[2]) \notin cluster_partition
    /\ \A t \in Transmitters : \A p \in tx[t].packets :
          p[1] \in inserted_original => Owner(p[2]) \notin cluster_partition

C2_RoutedToFanoutPeer ==
    \A t \in Transmitters :
        (/\ tx[t].pc = "remove_orig"
         /\ tx'[t].pc # "remove_orig"
         /\ tx[t].shreds[tx[t].i].signature \in original_last_data_shreds
         /\ tx[t].node \notin cluster_partition)
        => <<tx[t].shreds[tx[t].i].signature, TvuOf[tx[t].node]>> \in tx'[t].packets

C2_OriginalNeverToPartition ==
    [](C2_NoOriginalPacketToPartition) /\ [][C2_RoutedToFanoutPeer]_vars

\* an original shred was found in its set and dropped, its fan-out peer
\* being in the partition
C2_Witness ==
    \E sig \in inserted_original : Dropped(sig)

(* ------------------------------------------------------------------ *)
(* C3                                                                   *)
(* ------------------------------------------------------------------ *)
\* C3: once transmit has handled a shred recorded in
\* partition_last_data_shreds, the shred was sent to the TVU address of every
\* peer of the partition set, whatever the fan-out resolver selected.
C3_PartitionShredToEveryPartitionPeer ==
    \A sig \in inserted_partition :
        Transmitted(sig) => \A p \in cluster_partition : <<sig, TvuOf[p]>> \in delivered

(* ------------------------------------------------------------------ *)
(* C4                                                                   *)
(* ------------------------------------------------------------------ *)
\* C4: for a forked slot, the peers sent the original terminal shred and the
\* peers sent the partition terminal shred are disjoint.
C4_DisjointRecipients ==
    \A o \in inserted_original, q \in inserted_partition :
        SignedSlot(o) = SignedSlot(q) => SentTo(o) \cap SentTo(q) = {}

C4_Witness ==
    \E o \in inserted_original, q \in inserted_partition :
        /\ SignedSlot(o) = SignedSlot(q)
        /\ SentTo(o) # {}
        /\ SentTo(q) # {}

(* ------------------------------------------------------------------ *)
(* C5                                                                   *)
(* ------------------------------------------------------------------ *)
\* the bulk shreds of the slot of a terminal signature: every index below it
BulkStored(sig) ==
    \A j \in 0..(SignedIndex(sig) - 1) :
        \E s \in blockstore : s.slot = SignedSlot(sig) /\ s.index = j /\ s.data = "entries"

C7_SetsDrained ==
    (\A sig \in inserted_original \cup inserted_partition : Transmitted(sig))
    => original_last_data_shreds = {} /\ partition_last_data_shreds = {}

(* ------------------------------------------------------------------ *)
(* C8                                                                   *)
(* ------------------------------------------------------------------ *)
\* the four conditions, read from the state run leaves behind
FourConditions ==
    /\ bank_done
    /\ current_slot > MINIMUM_DUPLICATE_SLOT
    /\ num_slots_broadcasted % DUPLICATE_RATE = 0
    /\ recent_blockhash # None
\* an entry precedes the terminal tick: in this batch, or in an earlier batch
\* of the same slot
HasPreviousEntry ==
    \/ run_local.entry_batch_len > 1
    \/ run_local.data_shreds[1].index > 0

\* C8 as claimed: for a non-empty batch run forks the slot if and only if the
\* four conditions hold.
C8_ForkIffFourConditions ==
    run_pc = "send_bulk_rec" => (Forking <=> FourConditions)

\* C8 amended: run forks if and only if the four conditions hold and an entry
\* precedes the terminal tick.
C8_ForkIffFourConditionsAndPreviousEntry ==
    run_pc = "send_bulk_rec" => (Forking <=> (FourConditions /\ HasPreviousEntry))

\* a slot forked on the hash remembered from an earlier batch of the slot
C8_Witness ==
    /\ run_pc = "send_bulk_rec"
    /\ Forking
    /\ run_local.entry_batch_len = 1

(* ------------------------------------------------------------------ *)
(* C9                                                                   *)
(* ------------------------------------------------------------------ *)
Staked == DOMAIN epoch_staked_nodes \ {SelfPubkey}
\* the place of an identity in the ascending (stake, identity) order
PlaceOf(p) == 1 + Cardinality({q \in Staked : KeyLess(epoch_staked_nodes, q, p)})
Prefix(k) == {p \in Staked : PlaceOf(p) <= k}
RECURSIVE StakeOf(_)
StakeOf(S) ==
    IF S = {} THEN 0
    ELSE LET x == CHOOSE y \in S : TRUE
         IN epoch_staked_nodes[x] + StakeOf(S \ {x})
LongestPrefix ==
    LET fits == {k \in 0..Cardinality(Staked) : StakeOf(Prefix(k)) <= stake_partition}
    IN Prefix(CHOOSE k \in fits : \A j \in fits : j <= k)

\* C9: the partition set is the longest prefix of the non-self staked
\* identities, ascending by (stake, identity), whose stake is at most
\* stake_partition.
C9_PartitionIsLongestPrefix ==
    partition_out # <<>> => partition_out[1] = LongestPrefix

\* a tie of stakes split by the identity order, with this node in the table
C9_Witness ==
    /\ partition_out # <<>>
    /\ SelfPubkey \in DOMAIN epoch_staked_nodes
    /\ \E p \in partition_out[1], q \in Staked \ partition_out[1] :
          epoch_staked_nodes[p] = epoch_staked_nodes[q]

(* ------------------------------------------------------------------ *)
(* C10                                                                  *)
(* ------------------------------------------------------------------ *)
Cleared == [next_shred_index |-> 0, next_code_index |-> 0, prev_entry_hash |-> None]

C10_NewSlotStep ==
    current_slot' # current_slot =>
        /\ num_slots_broadcasted' = num_slots_broadcasted + 1
        /\ IF run_pc' = "recv"
           THEN /\ next_shred_index' = 0
                /\ next_code_index' = 0
                /\ prev_entry_hash' = None
           ELSE /\ run_local'.reset = <<Cleared>>
                /\ run_local'.data_shreds[1].index = 0

\* C10: when run sees another slot than that of the previous call, the first
\* slot after construction included, both indices are 0 and prev_entry_hash is
\* None before the slot's first shred is cut, and num_slots_broadcasted has
\* grown by one.
C10_ResetOnNewSlot == [][C10_NewSlotStep]_vars

\* a later slot, entered with shreds to cut
C10_Witness ==
    /\ run_local.reset = <<Cleared>>
    /\ num_slots_broadcasted > 1
    /\ next_code_index > 0

(* ------------------------------------------------------------------ *)
(* C11                                                                  *)
(* ------------------------------------------------------------------ *)
IsBulk(batch) == batch[1].data = "entries"
IsOriginal(batch) == batch[1].data = "original_last_entry"
IsPartition(batch) == batch[1].data = "duplicate_extra_last_entries"
\* the bulk batch cut by the same call of run as a terminal batch: same slot,
\* indices ending right below the terminal index
BulkOf(bulk, terminal) ==
    /\ IsBulk(bulk)
    /\ bulk[1].slot = terminal[1].slot
    /\ bulk[Len(bulk)].index + 1 = terminal[1].index

\* C11: on the socket channel the original terminal batch of a forked slot
\* comes right after the bulk batch of the same call and right before the
\* partition terminal batch, each a message of its own; nothing else of the
\* slot follows the partition batch, and every forked slot sends all three.
C11_BulkOriginalPartitionInOrder ==
    /\ \A i \in 1..Len(socket_log) :
          /\ IsOriginal(socket_log[i]) =>
                /\ i > 1
                /\ BulkOf(socket_log[i - 1], socket_log[i])
                /\ IF i = Len(socket_log)
                   THEN run_pc = "send_part_sock"
                   ELSE /\ IsPartition(socket_log[i + 1])
                        /\ socket_log[i + 1] \notin {socket_log[i], socket_log[i - 1]}
          /\ IsPartition(socket_log[i]) =>
                /\ i > 2
                /\ IsOriginal(socket_log[i - 1])
                /\ socket_log[i - 1][1].slot = socket_log[i][1].slot
                /\ i < Len(socket_log) => socket_log[i + 1][1].slot # socket_log[i][1].slot
    /\ Forking /\ run_pc \in {"lock_orig", "extend_orig", "lock_part", "extend_part",
                               "send_orig_rec", "send_orig_sock"}
          => socket_log[Len(socket_log)] = run_local.data_shreds
    /\ \A sig \in inserted_partition :
          ~Unsent(sig) => \E i \in 1..Len(socket_log) : sig \in Signatures(socket_log[i])

\* a slot with an ordinary batch before the forked one has sent all its messages
C11_Witness ==
    /\ Len(socket_log) > 3
    /\ IsPartition(socket_log[Len(socket_log)])
    /\ run_pc = "recv"

(* ------------------------------------------------------------------ *)
(* C12                                                                  *)
(* ------------------------------------------------------------------ *)
\* the shreds record has been sent and has not yet stored
Recording == UNION {{batch[i] : i \in 1..Len(batch)} :
                      batch \in {blockstore_chan[k] : k \in 1..Len(blockstore_chan)}}
\* the bulk shreds below a terminal signature were sent on the recorder channel
BulkSentToRecorder(sig) ==
    \A j \in 0..(SignedIndex(sig) - 1) :
        \E s \in blockstore \cup Recording :
            s.slot = SignedSlot(sig) /\ s.index = j /\ s.data = "entries"
\* a terminal signature run has sent to the recorder or to the transmitters
TerminalSent(sig) ==
    \/ \E i \in 1..Len(socket_log) : sig \in Signatures(socket_log[i])
    \/ \E s \in blockstore \cup Recording : s.signature = sig
TerminalSignatures ==
    {s.signature : s \in {x \in blockstore \cup Recording : x.data # "entries"}}
    \cup UNION {Signatures(socket_log[i]) :
                 i \in {k \in 1..Len(socket_log) : ~IsBulk(socket_log[k])}}

BeforeOriginalLookup(t) == tx[t].pc \in {"lock_orig", "remove_orig"}
BeforePartitionLookup(t) ==
    tx[t].pc \in {"lock_orig", "remove_orig", "lock_part", "remove_part"}

\* C13: a terminal batch on the socket channel, or a terminal shred a
\* transmitter is about to look up, has its signature in the tracking set of
\* its variant.
C13_RecordedBeforeTransmission ==
    /\ \A i \in 1..Len(socket_chan) :
          /\ IsOriginal(socket_chan[i])
                => Signatures(socket_chan[i]) \subseteq original_last_data_shreds
          /\ IsPartition(socket_chan[i])
                => Signatures(socket_chan[i]) \subseteq partition_last_data_shreds
    /\ \A t \in Transmitters :
          /\ BeforeOriginalLookup(t) /\ IsOriginal(tx[t].shreds)
                => tx[t].shreds[tx[t].i].signature \in original_last_data_shreds
          /\ BeforePartitionLookup(t) /\ IsPartition(tx[t].shreds)
                => tx[t].shreds[tx[t].i].signature \in partition_last_data_shreds

\* both terminal shreds are with transmitters that have not yet looked them up
C13_Witness ==
    \E t, u \in Transmitters :
        /\ BeforeOriginalLookup(t) /\ IsOriginal(tx[t].shreds)
        /\ BeforePartitionLookup(u) /\ IsPartition(tx[u].shreds)

(* ------------------------------------------------------------------ *)
(* C14                                                                  *)
(* ------------------------------------------------------------------ *)
\* C14: the original and the partition terminal shred of a forked slot have
\* the slot of the bank and the index right after the bulk batch, their
\* signatures differ, and both verify against this node's public key.
C14_SameSlotSameIndexOtherSignature ==
    Forking =>
        LET original == run_local.last_shreds[1].original
            partition == run_local.last_shreds[1].partition
            bulk == run_local.data_shreds
        IN /\ Len(original) = 1 /\ Len(partition) = 1
           /\ original[1].slot = current_slot
           /\ partition[1].slot = current_slot
           /\ original[1].index = bulk[Len(bulk)].index + 1
           /\ partition[1].index = original[1].index
           /\ next_shred_index = original[1].index + 1
           /\ original[1].signature # partition[1].signature
           /\ verify(original[1], SelfPubkey)
           /\ verify(partition[1], SelfPubkey)

\* a fork after two ordinary shreds of the slot
C14_Witness ==
    /\ Forking
    /\ run_local.last_shreds[1].partition[1].index > 1

(* ------------------------------------------------------------------ *)
(* Layout accessors                                                     *)
(* ------------------------------------------------------------------ *)
Returned(op) == result # <<>> /\ result[1].op = op

\* the bytes of the packet that belong to the shred: a repair response ends
\* with a nonce
ShredLen(pkt) == IF pkt.repair THEN pkt.size - SIZE_OF_NONCE ELSE pkt.size

\* C15: get_signed_message_range returns Some(range) only when range.end is at
\* most the length of the buffer, and None for every buffer too short to hold
\* the signed range.
C15_SignedRangeWithinBuffer ==
    Returned("get_signed_message_range") =>
        /\ result[1].value # <<>> => result[1].value[1].end <= packet[1].size
        /\ packet[1].size < SIGNED_MESSAGE_RANGE.end => result[1].value = <<>>

\* C16: get_shred_variant is InvalidPayloadSize when the buffer has no byte at
\* offset 64, InvalidShredVariant when that byte is neither 0b1010_0101 nor
\* 0b0101_1010, and otherwise the data or coding variant of that byte, which
\* converts back to the same byte and to the shred type Data or Code.
C16_VariantOfTagByte ==
    Returned("get_shred_variant") =>
        \A tag \in TagBytes :
            packet[1].hdr[1] = tag =>
                LET value == result[1].value
                IN /\ packet[1].size <= 64 => value = <<"Err", "InvalidPayloadSize">>
                   /\ packet[1].size > 64 /\ tag \notin {165, 90} =>
                          value = <<"Err", "InvalidShredVariant">>
                   /\ packet[1].size > 64 /\ tag = 165 =>
                          /\ value = <<"Ok", "LegacyData">>
                          /\ ShredVariantToU8(value[2]) = tag
                          /\ ShredTypeFromVariant(value[2]) = "Data"
                   /\ packet[1].size > 64 /\ tag = 90 =>
                          /\ value = <<"Ok", "LegacyCode">>
                          /\ ShredVariantToU8(value[2]) = tag
                          /\ ShredTypeFromVariant(value[2]) = "Code"

\* a byte with the high bit set that is no tag is refused
C16_Witness ==
    /\ Returned("get_shred_variant")
    /\ packet[1].size > 64
    /\ packet[1].hdr[1] = 255
    /\ result[1].value = <<"Err", "InvalidShredVariant">>

\* C17: for a packet that holds the headers of a data or coding shred,
\* get_shred_slot_index_type returns None and counts index_out_of_bounds when
\* the index is MAX_DATA_SHREDS_PER_SLOT or more, and returns
\* Some((slot, index, type)) only when the index is below it.
C17_IndexBelowCapOrCounted ==
    Returned("get_shred_slot_index_type") =>
        \A tag \in TagBytes, slot \in SlotValues, index \in IndexValues :
            packet[1].hdr = HeaderBytes(tag, slot, index) =>
                /\ ( /\ ShredLen(packet[1]) >= 77
                     /\ tag \in {165, 90}
                     /\ index >= MAX_DATA_SHREDS_PER_SLOT )
                   => /\ result[1].value = <<>>
                      /\ stats[1].index_out_of_bounds = 1
                /\ result[1].value # <<>>
                   => /\ index < MAX_DATA_SHREDS_PER_SLOT
                      /\ result[1].value[1] =
                             <<slot, index, IF tag = 165 THEN "Data" ELSE "Code">>
                      /\ stats[1] = ShredFetchStatsDefault

\* a coding shred whose index is the cap itself
C17_Witness ==
    /\ Returned("get_shred_slot_index_type")
    /\ packet[1].hdr = HeaderBytes(90, 1, MAX_DATA_SHREDS_PER_SLOT)
    /\ ShredLen(packet[1]) >= 77
    /\ result[1].value = <<>>
    /\ stats[1].index_out_of_bounds = 1

(* ------------------------------------------------------------------ *)
(* Shred                                                                *)
(* ------------------------------------------------------------------ *)
OnCode(op) == Returned(op) /\ shred_self[1].variant = "LegacyCode"
OnData(op) == Returned(op) /\ shred_self[1].variant = "LegacyData"
InvalidShredType == <<"Err", "InvalidShredType">>

\* C18: for every valid data or coding shred s, new_from_serialized_shred of
\* the payload of s is s again, and get_slot, get_index and get_shred_variant
\* of that payload are the slot, the index and the variant of s.
C18_PayloadRoundTrip ==
    Returned("new_from_serialized_shred") =>
        LET s == shred_self[1]
        IN sanitize(s) = <<"Ok", "unit">> =>
               /\ result[1].value = <<"Ok", s>>
               /\ get_slot(payload(s)) = <<s.slot>>
               /\ get_index(payload(s)) = <<s.index>>
               /\ get_shred_variant(payload(s)) = <<"Ok", s.variant>>

\* a coding shred with the slot and the index of test_serde_compat_shred_data
C18_Witness ==
    /\ OnCode("new_from_serialized_shred")
    /\ shred_self[1].slot = 141939602
    /\ shred_self[1].index = 28685
    /\ result[1].value = <<"Ok", shred_self[1]>>

\* C19: parent and data of a coding shred, num_data_shreds and
\* num_coding_shreds of a data shred, and erasure_mismatch of two shreds that
\* are not both coding shreds, return InvalidShredType.
C19_WrongVariantIsInvalidShredType ==
    /\ OnCode("parent") => result[1].value = InvalidShredType
    /\ OnCode("data") => result[1].value = InvalidShredType
    /\ OnData("num_data_shreds") => result[1].value = InvalidShredType
    /\ OnData("num_coding_shreds") => result[1].value = InvalidShredType
    /\ ( /\ Returned("erasure_mismatch")
         /\ "LegacyData" \in {shred_self[1].variant, shred_other[1].variant} )
       => result[1].value = InvalidShredType

\* a coding shred asked for its parent
C19_Witness ==
    /\ OnCode("parent")
    /\ result[1].value = InvalidShredType

\* C20 as stated: every operation that belongs to one variant returns the
\* type-mismatch error on the other variant, and none returns a default.
C20_EveryOperationMismatchError ==
    /\ \A op \in {"parent", "data", "last_in_slot", "data_complete",
                  "reference_tick"} :
           OnCode(op) => result[1].value = InvalidShredType
    /\ \A op \in {"num_data_shreds", "num_coding_shreds", "first_coding_index"} :
           OnData(op) => result[1].value = InvalidShredType
    /\ ( /\ Returned("set_last_in_slot")
         /\ shred_other[1].variant = "LegacyCode" )
       => result[1].value = InvalidShredType

\* C20: parent, data, num_data_shreds and num_coding_shreds return
\* InvalidShredType on the other variant; on a coding shred last_in_slot and
\* data_complete return false, reference_tick returns the mask 0b0011_1111
\* and set_last_in_slot changes nothing; first_coding_index of a data shred
\* is None.
C20_MismatchErrorOrDefault ==
    /\ \A op \in {"parent", "data"} :
           OnCode(op) => result[1].value = InvalidShredType
    /\ \A op \in {"num_data_shreds", "num_coding_shreds"} :
           OnData(op) => result[1].value = InvalidShredType
    /\ \A op \in {"last_in_slot", "data_complete"} :
           OnCode(op) => result[1].value = FALSE
    /\ OnCode("reference_tick") => result[1].value = 63
    /\ OnData("first_coding_index") => result[1].value = <<>>
    /\ ( /\ Returned("set_last_in_slot")
         /\ shred_other[1].variant = "LegacyCode" )
       => /\ shred_self = shred_other
          /\ result[1].value = "unit"

\* a coding shred asked for its reference tick
C20_Witness ==
    /\ OnCode("reference_tick")
    /\ result[1].value = 63

(* ------------------------------------------------------------------ *)
(* Flags                                                                *)
(* ------------------------------------------------------------------ *)
AsMade(op) == Returned(op) /\ args # <<>> /\ shred_other = <<>>
AfterSetLastInSlot(op) ==
    Returned(op) /\ shred_other # <<>> /\ shred_other[1].variant = "LegacyData"

\* C21: a data shred made with the flags of is_last_data and is_last_in_slot
\* and with a reference tick of 0 to 255 reads back data_complete() =
\* is_last_data, last_in_slot() = is_last_in_slot and reference_tick() =
\* min(reference_tick, 63), and get_reference_tick of its payload is the same
\* clamped tick.
C21_FlagsReadBack ==
    /\ AsMade("data_complete") => result[1].value = args[1].is_last_data
    /\ AsMade("last_in_slot") => result[1].value = args[1].is_last_in_slot
    /\ AsMade("reference_tick") =>
           result[1].value = IF args[1].reference_tick > 63 THEN 63
                             ELSE args[1].reference_tick
    /\ AsMade("get_reference_tick") =>
           result[1].value = <<"Ok", IF args[1].reference_tick > 63 THEN 63
                                     ELSE args[1].reference_tick>>

\* the reference tick 255 of a shred that is data complete and not the last
C21_Witness ==
    /\ AsMade("get_reference_tick")
    /\ args[1].reference_tick = 255
    /\ args[1].is_last_data /\ ~args[1].is_last_in_slot
    /\ result[1].value = <<"Ok", 63>>

\* C22: after set_last_in_slot on a data shred, whatever its flags were,
\* data_complete() and last_in_slot() are true and reference_tick() is what it
\* was; and no data shred reports last_in_slot() with data_complete() false.
C22_LastInSlotImpliesDataComplete ==
    /\ AfterSetLastInSlot("data_complete") => result[1].value = TRUE
    /\ AfterSetLastInSlot("last_in_slot") => result[1].value = TRUE
    /\ AfterSetLastInSlot("reference_tick") =>
           result[1].value = shred_other[1].flags % 64
    /\ (shred_self # <<>> /\ shred_self[1].variant = "LegacyData") =>
           (last_in_slot(shred_self[1]) => data_complete(shred_self[1]))

\* a shred with reference tick 37 and no flag, forced to be the last
C22_Witness ==
    /\ AfterSetLastInSlot("data_complete")
    /\ shred_other[1].flags = 37
    /\ shred_self[1].flags = 229
    /\ result[1].value = TRUE

(* ------------------------------------------------------------------ *)
(* Seed                                                                 *)
(* ------------------------------------------------------------------ *)
\* the feature is active and the epoch of the slot is later than the epoch
\* of the slot the feature was activated at
TypeInSeed(slot, bank) ==
    /\ bank.feature_slot # <<>>
    /\ slot \div SlotsPerEpoch > bank.feature_slot[1] \div SlotsPerEpoch

\* C23: Shred::seed hashes slot, shred type, index and leader public key if
\* the feature is active and the epoch of the shred's slot is strictly later
\* than the epoch of the feature's activation slot, and slot, index and
\* leader public key otherwise; the slot of the root bank plays no part.
C23_SeedGatedByShredSlot ==
    Returned("seed") =>
        LET s == shred_self[1]
            bank == args[1].root_bank
            slot_bytes == LEBytes(s.slot, 8)
            index_bytes == LEBytes(s.index, 4)
            tag == IF s.variant = "LegacyData" THEN 165 ELSE 90
        IN result[1].value =
               IF TypeInSeed(s.slot, bank)
               THEN <<"hashv", <<slot_bytes, <<tag>>, index_bytes, args[1].leader_pubkey>>>>
               ELSE <<"hashv", <<slot_bytes, index_bytes, args[1].leader_pubkey>>>>

\* a shred of the epoch after the feature's, while the root bank is still in
\* the feature's epoch
C23_Witness ==
    /\ Returned("seed")
    /\ TypeInSeed(shred_self[1].slot, args[1].root_bank)
    /\ ~TypeInSeed(args[1].root_bank.slot, args[1].root_bank)
    /\ Len(result[1].value[2]) = 4

(* ------------------------------------------------------------------ *)
(* Header sizes                                                         *)
(* ------------------------------------------------------------------ *)
\* C24: the common header is 83 bytes (64 + 1 + 8 + 4 + 2 + 4), the data
\* header 5 more (88) and the coding header 6 more (89), whatever the values
\* of the fields; the variant tag is at offset 64, the slot at 65, the index
\* at 73.
C24_HeaderSizes ==
    /\ Returned("serialized_size(common_header)") =>
           /\ result[1].value = 83
           /\ result[1].value = 64 + 1 + 8 + 4 + 2 + 4
           /\ SIZE_OF_COMMON_SHRED_HEADER = 83
           /\ LET bytes == CommonHeaderBytes(shred_self[1])
                  s == shred_self[1]
              IN /\ bytes[64 + 1] = IF s.variant = "LegacyData" THEN 165 ELSE 90
                 /\ SubSeq(bytes, 65 + 1, 65 + 8) = LEBytes(s.slot, 8)
                 /\ SubSeq(bytes, 73 + 1, 73 + 4) = LEBytes(s.index, 4)
           /\ OFFSET_OF_SHRED_VARIANT = 64
           /\ OFFSET_OF_SHRED_SLOT = 65
           /\ OFFSET_OF_SHRED_INDEX = 73
    /\ Returned("serialized_size(data_shred_header)") =>
           /\ result[1].value = 5
           /\ SIZE_OF_DATA_SHRED_HEADERS = 83 + result[1].value
           /\ SIZE_OF_DATA_SHRED_HEADERS = 88
    /\ Returned("serialized_size(coding_shred_header)") =>
           /\ result[1].value = 6
           /\ SIZE_OF_CODING_SHRED_HEADERS = 83 + result[1].value
           /\ SIZE_OF_CODING_SHRED_HEADERS = 89

\* a common header of zeros but for the tag
C24_Witness ==
    /\ Returned("serialized_size(common_header)")
    /\ shred_self[1].slot = 0 /\ shred_self[1].index = 0
    /\ shred_self[1].version = 0 /\ shred_self[1].fec_set_index = 0
    /\ result[1].value = 83

(* ------------------------------------------------------------------ *)
(* C25                                                                  *)
(* ------------------------------------------------------------------ *)
PacketsOf(t, sig) == {p \in tx[t].packets : p[1] = sig}

\* C25 as stated: when transmit has gone through a batch, every shred of it
\* that was never in a tracking set has exactly one packet.
C25_UntrackedAlwaysSentOnce ==
    \A t \in Transmitters :
        tx[t].pc = "send" =>
            \A i \in 1..Len(tx[t].shreds) :
                ~Tracked(tx[t].shreds[i].signature) =>
                    Cardinality(PacketsOf(t, tx[t].shreds[i].signature)) = 1

C25_LookupStep ==
    \A t \in Transmitters :
        LET st == tx[t]
            sig == st.shreds[st.i].signature
        IN /\ ( /\ st.pc = "remove_orig"
                /\ tx'[t] # st
                /\ sig \notin original_last_data_shreds )
              => /\ original_last_data_shreds' = original_last_data_shreds
                 /\ partition_last_data_shreds' = partition_last_data_shreds
                 /\ tx'[t].packets = st.packets
           /\ ( /\ st.pc = "remove_part"
                /\ tx'[t] # st
                /\ sig \notin partition_last_data_shreds )
              => /\ original_last_data_shreds' = original_last_data_shreds
                 /\ partition_last_data_shreds' = partition_last_data_shreds
                 /\ tx'[t].packets = st.packets \cup {<<sig, TvuOf[st.node]>>}
           /\ ( /\ st.pc = "send"
                /\ tx'[t] # st )
              => \A i \in 1..Len(st.shreds) :
                     ~Tracked(st.shreds[i].signature) =>
                         Cardinality(PacketsOf(t, st.shreds[i].signature)) <= 1

\* C25: a shred whose signature is in neither tracking set, and whose first
\* fan-out address is that of a peer of all_peers(), is sent to that address
\* and to no other; a shred with no such address is sent nowhere; the two
\* look-ups leave both tracking sets as they were.
C25_UntrackedToFanoutPeerAtMost == [][C25_LookupStep]_vars

\* a batch gone through while the original set holds a signature: a shred of
\* it that was never tracked has its one packet
C25_Witness ==
    \E t \in Transmitters :
        /\ tx[t].pc = "send"
        /\ original_last_data_shreds # {}
        /\ \E p \in tx[t].packets : ~Tracked(p[1])

(* ------------------------------------------------------------------ *)
(* C26                                                                  *)
(* ------------------------------------------------------------------ *)
Counters == {"index_overrun", "bad_shred_type", "slot_bad_deserialize",
             "index_bad_deserialize", "index_out_of_bounds"}

\* C26: get_shred_slot_index_type returns Some and leaves every counter as it
\* was, or returns None and has incremented exactly one of the five counters:
\* index_overrun when the shred is shorter than 77 bytes, bad_shred_type when
\* it is that long and its variant tag is unknown.
C26_SomeOrOneCounter ==
    Returned("get_shred_slot_index_type") =>
        /\ DOMAIN stats[1] = Counters
        /\ IF result[1].value # <<>>
           THEN \A c \in Counters : stats[1][c] = 0
           ELSE \E c \in Counters :
                    /\ stats[1][c] = 1
                    /\ \A d \in Counters \ {c} : stats[1][d] = 0
        /\ ShredLen(packet[1]) < 77 =>
               result[1].value = <<>> /\ stats[1].index_overrun = 1
        /\ (ShredLen(packet[1]) >= 77 /\ packet[1].hdr[1] \notin {165, 90}) =>
               result[1].value = <<>> /\ stats[1].bad_shred_type = 1

\* a repair response of 80 bytes: its nonce leaves a shred of 76
C26_Witness ==
    /\ Returned("get_shred_slot_index_type")
    /\ packet[1].repair
    /\ packet[1].size >= 77
    /\ ShredLen(packet[1]) < 77
    /\ packet[1].hdr[1] = 165
    /\ stats[1].index_overrun = 1

(* ------------------------------------------------------------------ *)
(* C27                                                                  *)
(* ------------------------------------------------------------------ *)
\* the indices of a batch are first, first + 1, ...
Contiguous(shreds, first) ==
    \A i \in 1..Len(shreds) : shreds[i].index = first + i - 1

\* the index the slot of the call has reached before the call
IssuedBefore == IF current_slot' # current_slot THEN 0 ELSE next_shred_index

C27_RunStep ==
    /\ (run_pc = "recv" /\ run_pc' # "recv") =>
           LET bulk == run_local'.data_shreds
               last_shreds == run_local'.last_shreds
           IN /\ Contiguous(bulk, IssuedBefore)
              /\ \A i \in 1..Len(bulk) : bulk[i].slot = current_slot'
              /\ IF last_shreds = <<>>
                 THEN next_shred_index' = IssuedBefore + Len(bulk)
                 ELSE /\ Contiguous(last_shreds[1].original, IssuedBefore + Len(bulk))
                      /\ Contiguous(last_shreds[1].partition, IssuedBefore + Len(bulk))
                      /\ Len(last_shreds[1].original) = 1
                      /\ Len(last_shreds[1].partition) = 1
                      /\ next_shred_index' = IssuedBefore + Len(bulk) + 1
    /\ (run_pc = "recv" /\ run_pc' = "recv") => next_shred_index' = IssuedBefore
    /\ run_pc # "recv" => next_shred_index' = next_shred_index
    /\ Len(socket_chan') > Len(socket_chan) =>
           /\ run_pc # "recv"
           /\ socket_chan'[Len(socket_chan')] \in
                  {run_local.data_shreds}
                  \cup (IF run_local.last_shreds = <<>> THEN {}
                        ELSE {run_local.last_shreds[1].original,
                              run_local.last_shreds[1].partition})

\* C27: the data shreds a call of run cuts and sends have the indices that
\* follow those of the calls before it in the slot, from 0 on; the original
\* and the partition terminal shred of a forked slot share the next index;
\* after the call next_shred_index is the number of indices the slot has used.
C27_ContiguousIndices == [][C27_RunStep]_vars

\* a later call in a slot: its shreds go on where the call before stopped
C27_Witness ==
    /\ run_pc = "send_bulk_sock"
    /\ run_local.reset = <<>>
    /\ run_local.data_shreds[1].index > 0
    /\ next_shred_index = run_local.data_shreds[1].index + Len(run_local.data_shreds)

(* ------------------------------------------------------------------ *)
(* C28                                                                  *)
(* ------------------------------------------------------------------ *)
\* the ordinary batch of the call was shredded with last-in-slot set: its
\* last shred carries the flag
BulkEndsSlot ==
    run_local.data_shreds[Len(run_local.data_shreds)].last_in_slot

\* C28: the ordinary batch of a call is shredded with last-in-slot set if and
\* only if the call reached the last tick of the bank and did not fork the
\* slot; when the four conditions hold and no previous entry hash is
\* available, the slot is not forked and the ordinary batch ends it.
C28_BulkLastIffLastTickAndNotForked ==
    run_pc = "send_bulk_rec" =>
        /\ BulkEndsSlot <=> (bank_done /\ ~Forking)
        /\ \A i \in 1..(Len(run_local.data_shreds) - 1) :
               ~run_local.data_shreds[i].last_in_slot
        /\ (FourConditions /\ ~HasPreviousEntry) => (~Forking /\ BulkEndsSlot)

\* the four conditions hold for a slot whose only entry is its terminal tick:
\* no fork, and the ordinary batch ends the slot
C28_Witness ==
    /\ run_pc = "send_bulk_rec"
    /\ FourConditions
    /\ ~HasPreviousEntry
    /\ ~Forking
    /\ BulkEndsSlot

(* ------------------------------------------------------------------ *)
(* C29                                                                  *)
(* ------------------------------------------------------------------ *)
\* a call of run that received an empty entry batch: the producer is at its
\* receive with nothing in flight, and is at its receive again after the step
EmptyBatchCall == run_pc = "recv" /\ Drained /\ run_pc' = "recv"

C29_RunStep ==
    EmptyBatchCall =>
        /\ UNCHANGED <<socket_chan, blockstore_chan, set_vars, lock_vars, hist_vars,
                       recent_blockhash, tx, blockstore, delivered, removals,
                       socket_log, config_vars, run_local>>
        /\ IF current_slot' # current_slot
           THEN /\ next_shred_index' = 0
                /\ next_code_index' = 0
                /\ prev_entry_hash' = None
                /\ num_slots_broadcasted' = num_slots_broadcasted + 1
           ELSE UNCHANGED <<next_shred_index, next_code_index, prev_entry_hash,
                            num_slots_broadcasted>>

\* C29: a call of run that receives an empty entry batch sends nothing on the
\* transmit or the recorder channel and adds nothing to either tracking set;
\* apart from the reset for a new slot it leaves recent_blockhash and all
\* other state as it was.
C29_EmptyBatchOnlyResets == [][C29_RunStep]_vars

\* the state an empty batch of a new slot leaves: the indices are reset, the
\* blockhash of the slot before is still there
C29_Witness ==
    /\ run_pc = "recv"
    /\ Drained
    /\ next_shred_index = 0
    /\ prev_entry_hash = None
    /\ num_slots_broadcasted > 1
    /\ recent_blockhash # None

(* ------------------------------------------------------------------ *)
(* C30                                                                  *)
(* ------------------------------------------------------------------ *)
Stages == {"run"} \cup Transmitters
Holds(p) == {m \in {"original", "partition"} :
                \/ m = "original" /\ orig_lock = p
                \/ m = "partition" /\ part_lock = p}

\* the one step a holder of a tracking-set mutex has left before the guard is
\* dropped: the extend of run, the remove of transmit
AtSetOperation(p, m) ==
    IF p = "run"
    THEN run_pc = (IF m = "original" THEN "extend_orig" ELSE "extend_part")
    ELSE tx[p].pc = (IF m = "original" THEN "remove_orig" ELSE "remove_part")

\* the holder can take that step whatever the other stages do
CanRelease(p, m) ==
    IF p = "run"
    THEN IF m = "original" THEN ENABLED RunExtendOriginal ELSE ENABLED RunExtendPartition
    ELSE IF m = "original" THEN ENABLED TransmitRemoveOriginal(p)
         ELSE ENABLED TransmitRemovePartition(p)

LockDiscipline ==
    \A p \in Stages :
        /\ Cardinality(Holds(p)) <= 1
        /\ \A m \in Holds(p) : AtSetOperation(p, m) /\ CanRelease(p, m)

\* the stage that takes the step
Moves(p) == IF p = "run" THEN run_pc' # run_pc ELSE tx'[p] # tx[p]

\* a step that sends on or receives from a channel is taken by a stage that
\* holds no tracking-set mutex, before and after it
ChannelStep ==
    (socket_chan' # socket_chan \/ blockstore_chan' # blockstore_chan) =>
        \A p \in Stages : Moves(p) => (Holds(p) = {} /\ Holds(p)' = {})

\* C30: no stage holds the mutexes of both tracking sets at once; a stage that
\* holds one is at its extend or its remove, which it can always take and
\* which drops the guard; no channel send or receive is made with a guard in
\* hand. So no stage waits for a tracking set forever.
C30_NoLockHeldAcrossLockOrChannel == []LockDiscipline /\ [][ChannelStep]_vars

\* the two mutexes held at once by two stages: the producer extends the
\* partition set while a transmitter removes from the original set
C30_Witness ==
    /\ part_lock = "run"
    /\ orig_lock \in Transmitters
    /\ LockDiscipline

====
